---------------------------- MODULE Spec2Model ----------------------------
(***************************************************************************)
(* Leafcore IoT backend (s25337/panel).                                    *)
(*                                                                         *)
(* The module holds four state machines over disjoint groups of variables: *)
(*                                                                         *)
(*   Spec       the file-backed actuation loop of app.py                   *)
(*              (GPIOController._run_gpio / _run_mock) together with the   *)
(*              HTTP handlers that write devices_info.json                 *)
(*   SpecDM     the DeviceManager stack (ControlService over BaseBackend)  *)
(*   SpecSched  the "sleep until 12:00" watering loop of ControlService /  *)
(*              AutomationService                                          *)
(*   SpecStore  the JSON document store (json_manager.py) and the other    *)
(*              writers of the same document                               *)
(*                                                                         *)
(* Each specification leaves the variables of the other three untouched.   *)
(***************************************************************************)
EXTENDS Integers, Sequences, FiniteSets, TLC

VARIABLES
    \* ---- file-backed actuation loop (app.py) ----
    backend,            \* "gpio" | "mock": which loop GPIOController.run entered
    devices_info_file,  \* content of source_files/devices_info.json
    mode,               \* per-device "mode" field of devices_info.json
    settings,           \* content of settings_config.json read by the loop
    sensor_data_file,   \* "missing" | "present": source_files/sensor_data.json
    devices_info,       \* the loop's in-memory copy (local of _run_gpio/_run_mock)
    devices_changes_made, \* local flag of _run_gpio
    expired,            \* local: elapsed > watering_time as evaluated at line 176/181
    pc,                 \* position of the loop thread
    now,                \* time.time(), in seconds
    fan_line, sprinkler_line, pump_line,  \* gpiod output lines (TRUE = ACTIVE)
    heat_duty,          \* pwmchip0/pwm4 duty cycle, percent of the period
    ext_calls,          \* number of HTTP handler calls made so far
    tick,               \* what the current loop iteration loaded / did (observer)
    last_saved,         \* last document the loop committed in this iteration (observer)
    \* ---- DeviceManager stack ----
    dm,
    \* ---- watering schedule loop ----
    sched,
    \* ---- JSON store ----
    store,
    \* ---- gpio_manager.py (module-level devices_info) ----
    gm,
    \* ---- SoftwareI2CBridge ----
    i2c,
    \* ---- sensor polling services ----
    sens,
    \* ---- GPIOdBackend (devices/hardware.py) ----
    hw,
    \* ---- start-up, loops and shutdown (app.py) ----
    sup,
    \* ---- SyncService (services/sync_service.py) ----
    sync,
    \* ---- background services: start, stop and the service loop threads ----
    svc,
    \* ---- HistoryService: the four history buffers ----
    hist

others == <<dm, sched, store, gm, i2c, sens, hw, sup, sync, svc, hist>>

vars == <<backend, devices_info_file, mode, settings, sensor_data_file, devices_info,
          devices_changes_made, expired, pc, now, fan_line, sprinkler_line,
          pump_line, heat_duty, ext_calls, tick, last_saved, dm, sched, store, gm, i2c, sens, hw, sup, sync, svc, hist>>

loopVars == <<backend, devices_info_file, mode, settings, sensor_data_file,
              devices_info, devices_changes_made, expired, pc, now, fan_line,
              sprinkler_line, pump_line, heat_duty, ext_calls, tick, last_saved>>

(***************************************************************************)
(* Bounds of the model.                                                    *)
(***************************************************************************)
\* the clock of the actuation loop runs from 1 to MaxTime seconds
MaxTime == 3
\* HTTP handler calls (control_watering, toggle_device) per behaviour
MaxExtCalls == 2

(***************************************************************************)
(*                  PART 1: the file-backed actuation loop                 *)
(***************************************************************************)

OnOff == {"on", "off"}

\* A sensor field that is absent (None in the newest reading).
NoReading == -1

\* No document: the loop has not saved in this iteration / has no local copy.
NoDoc == [none |-> TRUE]

\* The part of devices_info.json the loop reads and writes.  turned_on_at = 0
\* stands for "key absent" (time.time() is never 0); manual_trigger FALSE
\* stands for "key absent".
DeviceDocs ==
    [fan : OnOff, heat_mat : OnOff, sprinkler : OnOff, pump : OnOff,
     turned_on_at : 0..(MaxTime + 1), manual_trigger : BOOLEAN]

\* settings_config.json as far as the loop reads it.
TargetTemp == 25
TargetHum == 60
WateringTimes == {1, 2}

\* The newest sensor reading: sensor_list[0], or the falsy document
\* ({} / []) that load_json_secure returns when sensor_data.json is missing.
Readings == [temperature : {NoReading, 20, 30}, humidity : {NoReading, 50, 70}]
EmptySensorList == [empty |-> TRUE]

\* load_json_secure(sensor_data_file) as the loop sees it: {} while the file
\* does not exist yet, afterwards the reading SensorService saved last.
LoadSensorList ==
    IF sensor_data_file = "missing" THEN {EmptySensorList} ELSE Readings

\* apply_automation_rules(devices_info, newest, settings, ...): the function
\* app.py imports from src.gpio_manager is not part of the sources; it is
\* modelled from section 4.3 of the specification: a device in auto mode is
\* forced off while the pump is on, otherwise follows its threshold rule
\* when the reading is present; a device in manual mode is left alone.
AutoState(cur, m, pumpOn, haveReading, wantOn) ==
    IF m # "auto" THEN cur
    ELSE IF pumpOn THEN "off"
    ELSE IF ~haveReading THEN cur
    ELSE IF wantOn THEN "on" ELSE "off"

apply_automation_rules(d, newest, s, m) ==
    LET pumpOn == d.pump = "on"
        t == newest.temperature
        h == newest.humidity
    IN [d EXCEPT
          !.heat_mat  = AutoState(d.heat_mat, m.heat_mat, pumpOn,
                                  t # NoReading, t < s.target_temp),
          !.fan       = AutoState(d.fan, m.fan, pumpOn,
                                  h # NoReading, h > s.target_hum),
          !.sprinkler = AutoState(d.sprinkler, m.sprinkler, pumpOn,
                                  h # NoReading, h < s.target_hum)]

\* app.py lines 161-170 (and 238-245): record / drop the pump timestamp.
\* Returns the new document; the caller compares it to detect a change.
StampPump(d, t) ==
    IF d.pump = "on"
    THEN IF d.turned_on_at = 0 THEN [d EXCEPT !.turned_on_at = t] ELSE d
    ELSE [d EXCEPT !.turned_on_at = 0]

\* app.py lines 178-179: the interlock of _run_gpio.
ForceOffGpio(d) == [d EXCEPT !.fan = "off", !.heat_mat = "off"]

\* app.py lines 182-186: the pump run is over (_run_gpio).
FinishWateringGpio(d) ==
    [d EXCEPT !.pump = "off", !.manual_trigger = FALSE, !.turned_on_at = 0]

\* app.py lines 252-253: the pump run is over (_run_mock).
FinishWateringMock(d) == [d EXCEPT !.pump = "off", !.turned_on_at = 0]

\* What the observer notes when an iteration loads the device document.
TickAtLoad(d, s, t) ==
    [hot       |-> d.pump = "on" /\ d.heat_mat = "on",
     due       |-> d.pump = "on" /\ d.turned_on_at # 0
                   /\ t - d.turned_on_at > s,
     trigger   |-> d.pump = "on" /\ d.manual_trigger,
     recorded  |-> FALSE]

IdleTick == [hot |-> FALSE, due |-> FALSE, trigger |-> FALSE, recorded |-> FALSE]

----------------------------------------------------------------------------
\* _run_gpio, lines 149-179: load the three documents, apply the rules, stamp
\* the pump, force fan and heat mat off while the pump runs.
GpioLoad ==
    /\ backend = "gpio" /\ pc = "load"
    /\ \E sensor_list \in LoadSensorList :
         IF sensor_list = EmptySensorList
         THEN /\ pc' = "apply_load"
              /\ devices_info' = devices_info_file
              /\ devices_changes_made' = FALSE
              /\ expired' = FALSE
         ELSE LET ruled   == apply_automation_rules(devices_info_file, sensor_list,
                                                    settings, mode)
                  stamped == StampPump(ruled, now)
                  running == stamped.turned_on_at # 0
              IN /\ devices_changes_made' = (stamped # ruled)
                 /\ devices_info' = IF running THEN ForceOffGpio(stamped) ELSE stamped
                 /\ expired' = (running /\ now - stamped.turned_on_at
                                             > settings.watering_time)
                 /\ pc' = IF running THEN "save_running"
                          ELSE IF stamped # ruled THEN "save_changes"
                          ELSE "apply_load"
    /\ tick' = TickAtLoad(devices_info_file, settings.watering_time, now)
    /\ last_saved' = NoDoc
    /\ UNCHANGED <<others, sensor_data_file, backend, devices_info_file, mode, settings, now, fan_line,
                   sprinkler_line, pump_line, heat_duty, ext_calls>>

\* _run_gpio, lines 180-187: commit the running pump, then close the run if
\* the watering time has elapsed.
GpioSaveRunning ==
    /\ backend = "gpio" /\ pc = "save_running"
    /\ devices_info_file' = devices_info
    /\ last_saved' = devices_info
    /\ tick' = [tick EXCEPT !.recorded = devices_info.turned_on_at # 0]
    /\ devices_info' = IF expired THEN FinishWateringGpio(devices_info)
                       ELSE devices_info
    /\ devices_changes_made' = (devices_changes_made \/ expired)
    /\ pc' = IF devices_changes_made \/ expired THEN "save_changes" ELSE "apply_load"
    /\ UNCHANGED <<others, sensor_data_file, backend, mode, settings, expired, now, fan_line,
                   sprinkler_line, pump_line, heat_duty, ext_calls>>

\* _run_gpio, lines 189-190.
GpioSaveChanges ==
    /\ backend = "gpio" /\ pc = "save_changes"
    /\ devices_info_file' = devices_info
    /\ last_saved' = devices_info
    /\ pc' = "apply_load"
    /\ UNCHANGED <<others, sensor_data_file, backend, mode, settings, devices_info, devices_changes_made,
                   expired, now, fan_line, sprinkler_line, pump_line, heat_duty,
                   ext_calls, tick>>

\* _run_gpio, lines 198-203: reload the document, drive the fan and
\* sprinkler lines, then sleep 0.5 s.
GpioApplyFanSprinkler ==
    /\ backend = "gpio" /\ pc = "apply_load"
    /\ devices_info' = devices_info_file
    /\ fan_line' = (devices_info_file.fan = "on")
    /\ sprinkler_line' = (devices_info_file.sprinkler = "on")
    /\ pc' = "apply_pump"
    /\ UNCHANGED <<others, sensor_data_file, backend, devices_info_file, mode, settings,
                   devices_changes_made, expired, now, pump_line, heat_duty,
                   ext_calls, tick, last_saved>>

\* _run_gpio, lines 204-206: the pump line follows the document only when
\* heat mat and fan are off in it.
GpioApplyPump ==
    /\ backend = "gpio" /\ pc = "apply_pump"
    /\ pump_line' = IF devices_info.heat_mat = "off" /\ devices_info.fan = "off"
                    THEN devices_info.pump = "on"
                    ELSE pump_line
    /\ pc' = "apply_heat"
    /\ UNCHANGED <<others, sensor_data_file, backend, devices_info_file, mode, settings, devices_info,
                   devices_changes_made, expired, now, fan_line, sprinkler_line,
                   heat_duty, ext_calls, tick, last_saved>>

\* set_heat(intensity), lines 105-110: duty = PWM_PERIOD * clamp(intensity).
set_heat(percent) == IF percent < 0 THEN 0 ELSE IF percent > 100 THEN 100 ELSE percent

\* _run_gpio, lines 208-210: set_heat(0.3) when the heat mat is on.
GpioApplyHeat ==
    /\ backend = "gpio" /\ pc = "apply_heat"
    /\ heat_duty' = IF devices_info.heat_mat = "on" THEN set_heat(30) ELSE heat_duty
    /\ pc' = "sleep"
    /\ UNCHANGED <<others, sensor_data_file, backend, devices_info_file, mode, settings, devices_info,
                   devices_changes_made, expired, now, fan_line, sprinkler_line,
                   pump_line, ext_calls, tick, last_saved>>

\* _run_mock, lines 229-253.
MockLoad ==
    /\ backend = "mock" /\ pc = "load"
    /\ \E sensor_list \in LoadSensorList :
         IF sensor_list = EmptySensorList
         THEN /\ pc' = "sleep"
              /\ devices_info' = devices_info_file
         ELSE LET ruled   == apply_automation_rules(devices_info_file, sensor_list,
                                                    settings, mode)
                  stamped == StampPump(ruled, now)
                  over    == stamped.turned_on_at # 0
                             /\ now - stamped.turned_on_at > settings.water_seconds
              IN /\ devices_info' = IF over THEN FinishWateringMock(stamped)
                                    ELSE stamped
                 /\ pc' = "save_mock"
    /\ tick' = TickAtLoad(devices_info_file, settings.water_seconds, now)
    /\ last_saved' = NoDoc
    /\ UNCHANGED <<others, sensor_data_file, backend, devices_info_file, mode, settings,
                   devices_changes_made, expired, now, fan_line, sprinkler_line,
                   pump_line, heat_duty, ext_calls>>

\* _run_mock, line 255.
MockSave ==
    /\ backend = "mock" /\ pc = "save_mock"
    /\ devices_info_file' = devices_info
    /\ last_saved' = devices_info
    /\ tick' = [tick EXCEPT !.recorded = devices_info.turned_on_at # 0]
    /\ pc' = "sleep"
    /\ UNCHANGED <<others, sensor_data_file, backend, mode, settings, devices_info, devices_changes_made,
                   expired, now, fan_line, sprinkler_line, pump_line, heat_duty,
                   ext_calls>>

\* time.sleep at the end of an iteration (line 223 / line 260).
LoopSleep ==
    /\ pc = "sleep"
    /\ pc' = "load"
    /\ UNCHANGED <<others, sensor_data_file, backend, devices_info_file, mode, settings, devices_info,
                   devices_changes_made, expired, now, fan_line, sprinkler_line,
                   pump_line, heat_duty, ext_calls, tick, last_saved>>

\* The wall clock advances.
ClockTick ==
    /\ now < MaxTime
    /\ now' = now + 1
    /\ UNCHANGED <<others, sensor_data_file, backend, devices_info_file, mode, settings, devices_info,
                   devices_changes_made, expired, pc, fan_line, sprinkler_line,
                   pump_line, heat_duty, ext_calls, tick, last_saved>>

\* SensorService.run, line 286: save_callback(self.output_file, data).  The
\* loop thread is started before the sensor thread (app.py lines 287-304).
SensorSave ==
    /\ sensor_data_file = "missing"
    /\ sensor_data_file' = "present"
    /\ UNCHANGED <<others, backend, devices_info_file, mode, settings, devices_info,
                   devices_changes_made, expired, pc, now, fan_line, sprinkler_line,
                   pump_line, heat_duty, ext_calls, tick, last_saved>>

\* api_frontend.control_watering, lines 62-75: POST /api/watering.
control_watering ==
    /\ ext_calls < MaxExtCalls
    /\ ext_calls' = ext_calls + 1
    /\ devices_info_file' = [devices_info_file EXCEPT !.pump = "on",
                                                      !.manual_trigger = TRUE]
    /\ UNCHANGED <<others, sensor_data_file, backend, mode, settings, devices_info, devices_changes_made,
                   expired, pc, now, fan_line, sprinkler_line, pump_line,
                   heat_duty, tick, last_saved>>

\* api_frontend.toggle_device, lines 121-128: POST /api/control/<device>/<state>.
toggle_device ==
    /\ ext_calls < MaxExtCalls
    /\ ext_calls' = ext_calls + 1
    /\ \E device \in {"fan", "heat_mat", "sprinkler", "pump"}, state \in OnOff :
         devices_info_file' = [devices_info_file EXCEPT ![device] = state]
    /\ UNCHANGED <<others, sensor_data_file, backend, mode, settings, devices_info, devices_changes_made,
                   expired, pc, now, fan_line, sprinkler_line, pump_line,
                   heat_duty, tick, last_saved>>

\* The document devices_info.json holds after one iteration of _run_gpio that
\* loaded document d and found the reading newest at time t (lines 151-190):
\* GpioLoad followed by the saves it leads to.  Without a save the file
\* keeps d.
run_gpio_commit(d, newest, s, m, t) ==
    LET ruled   == apply_automation_rules(d, newest, s, m)
        stamped == StampPump(ruled, t)
        running == stamped.turned_on_at # 0
        forced  == ForceOffGpio(stamped)
    IN  IF running
        THEN IF t - stamped.turned_on_at > s.watering_time
             THEN FinishWateringGpio(forced) ELSE forced
        ELSE IF stamped # ruled THEN stamped ELSE d

\* The document devices_info.json holds after one iteration of _run_mock
\* (lines 229-255): MockLoad followed by MockSave.
run_mock_commit(d, newest, s, m, t) ==
    LET ruled   == apply_automation_rules(d, newest, s, m)
        stamped == StampPump(ruled, t)
    IN  IF stamped.turned_on_at # 0 /\ t - stamped.turned_on_at > s.water_seconds
        THEN FinishWateringMock(stamped) ELSE stamped

LoopInit ==
    /\ backend \in {"gpio", "mock"}
    /\ devices_info_file = [fan |-> "off", heat_mat |-> "off", sprinkler |-> "off",
                            pump |-> "off", turned_on_at |-> 0,
                            manual_trigger |-> FALSE]
    /\ mode \in [{"fan", "heat_mat", "sprinkler"} -> {"auto", "manual"}]
    /\ settings \in [target_temp : {TargetTemp}, target_hum : {TargetHum},
                     watering_time : WateringTimes, water_seconds : WateringTimes]
    /\ sensor_data_file \in {"missing", "present"}
    /\ devices_info = devices_info_file
    /\ devices_changes_made = FALSE
    /\ expired = FALSE
    /\ pc = "load"
    /\ now = 1
    /\ fan_line = FALSE /\ sprinkler_line = FALSE /\ pump_line = FALSE
    /\ heat_duty = 0
    /\ ext_calls = 0
    /\ tick = IdleTick
    /\ last_saved = NoDoc

LoopNext ==
    \/ GpioLoad
    \/ GpioSaveRunning
    \/ GpioSaveChanges
    \/ GpioApplyFanSprinkler
    \/ GpioApplyPump
    \/ GpioApplyHeat
    \/ MockLoad
    \/ MockSave
    \/ LoopSleep
    \/ ClockTick
    \/ SensorSave
    \/ control_watering
    \/ toggle_device


(***************************************************************************)
(*      PART 2: the DeviceManager stack (ControlService, BaseBackend)      *)
(*                                                                         *)
(* dm is a record:                                                         *)
(*   fan_state, pump_state, heater_state, sprinkler_state, light_state     *)
(*                      BaseBackend._*_state (devices/base.py)             *)
(*   fan_hysteresis_on, light_intensity                                    *)
(*                      ControlService._fan_hysteresis_on, _light_intensity*)
(*   modes              manual_settings["modes"][device]["mode"]           *)
(*   start_hour, end_hour   the light window of settings_config.json       *)
(*   watering           TRUE between set_pump(True) and set_pump(False) of *)
(*                      _water_plant                                       *)
(*   last_op            observer: the method that ran last                 *)
(*   last_args          observer: the readings and the time of day that    *)
(*                      method was called with                             *)
(* SpecDM follows the binary devices (the light inputs are held at "no     *)
(* brightness reading, 12:00"); SpecLight follows the light over all       *)
(* brightness readings, times of day and light windows (no temperature or  *)
(* humidity reading).                                                      *)
(* The methods are called in any order by the routes and the automation    *)
(* threads; their arguments are drawn from the sets below.                 *)
(***************************************************************************)

\* settings_service.py lines 26-33: the defaults of the settings store.
DefaultTargetTemp == 25
DefaultTargetHum == 60
DefaultLightIntensity == 50

Temperatures == {NoReading, 20, 30}
Humidities == {NoReading, 50, 60, 70}
Brightnesses == {NoReading, 0, 30, 130}
\* minutes since midnight at which a method may be called
ClockMinutes == {0, 6 * 60, 8 * 60, 18 * 60, 22 * 60}
LightWindows == {<<6, 18>>, <<22, 6>>, <<8, 8>>}
BinaryDevices == {"fan", "pump", "heater", "sprinkler"}
\* The mode maps the model starts from: every device in auto mode, one
\* device in manual mode, or every device in manual mode.
ManualSets == {{}, {"fan"}, {"heat_mat"}, {"sprinkler"}, {"light"},
               {"fan", "heat_mat", "sprinkler", "light"}}
ModeMap(manual) ==
    [device \in {"fan", "heat_mat", "sprinkler", "light"} |->
        IF device \in manual THEN "manual" ELSE "auto"]

\* BaseBackend.set_light, devices/base.py line 48: clamp to 0..100.
BackendSetLight(d, intensity) ==
    [d EXCEPT !.light_state = IF intensity < 0 THEN 0
                              ELSE IF intensity > 100 THEN 100 ELSE intensity]

\* BaseBackend.set_fan / set_pump / set_heater / set_sprinkler, lines 42-60.
BackendSetBinary(d, device, state) ==
    CASE device = "fan"       -> [d EXCEPT !.fan_state = state]
      [] device = "pump"      -> [d EXCEPT !.pump_state = state]
      [] device = "heater"    -> [d EXCEPT !.heater_state = state]
      [] device = "sprinkler" -> [d EXCEPT !.sprinkler_state = state]

\* ControlService.should_light_be_on, lines 72-94.
should_light_be_on(d, current_minutes) ==
    LET start_minutes == d.start_hour * 60
        end_minutes   == d.end_hour * 60
    IN IF end_minutes >= start_minutes
       THEN start_minutes <= current_minutes /\ current_minutes < end_minutes
       ELSE current_minutes >= start_minutes \/ current_minutes < end_minutes

\* ControlService.control_light_auto, lines 96-122.
control_light_auto(d, light_sensor_reading, current_minutes) ==
    IF ~should_light_be_on(d, current_minutes)
    THEN BackendSetLight([d EXCEPT !.light_intensity = 0], 0)
    ELSE IF light_sensor_reading = NoReading
    THEN BackendSetLight(d, DefaultLightIntensity)
    ELSE LET raw == 100 - light_sensor_reading
             intensity == IF raw < 0 THEN 0 ELSE IF raw > 100 THEN 100 ELSE raw
         IN BackendSetLight([d EXCEPT !.light_intensity = intensity], intensity)

\* ControlService.control_fan_auto, lines 47-68.
control_fan_auto(d, current_humidity) ==
    IF current_humidity = NoReading THEN d
    ELSE IF d.fan_hysteresis_on
    THEN IF current_humidity <= DefaultTargetHum
         THEN BackendSetBinary([d EXCEPT !.fan_hysteresis_on = FALSE], "fan", FALSE)
         ELSE d
    ELSE IF current_humidity > DefaultTargetHum
         THEN BackendSetBinary([d EXCEPT !.fan_hysteresis_on = TRUE], "fan", TRUE)
         ELSE d

\* ControlService.update_auto_devices, lines 333-373.
update_auto_devices(d, temperature, humidity, brightness, current_minutes) ==
    LET d1 == IF d.modes.heat_mat = "auto" /\ temperature # NoReading
              THEN BackendSetBinary(d, "heater", temperature < DefaultTargetTemp)
              ELSE d
        d2 == IF d1.modes.fan = "auto" /\ humidity # NoReading
              THEN BackendSetBinary(d1, "fan", humidity > DefaultTargetHum)
              ELSE d1
        d3 == IF d2.modes.sprinkler = "auto" /\ humidity # NoReading
              THEN BackendSetBinary(d2, "sprinkler", humidity < DefaultTargetHum)
              ELSE d2
    IN IF d3.modes.light = "auto"
       THEN control_light_auto(d3, brightness, current_minutes)
       ELSE d3

\* ControlService.set_device, lines 288-312, for a binary device.
set_device(d, device, state) == BackendSetBinary(d, device, state)

\* ControlService.set_device, lines 300-304, for the light.
set_device_light(d, state) == BackendSetLight(d, state)

\* ControlService.set_fan / set_heater / set_sprinkler, lines 408-421: the
\* helpers GPIOAutomationService calls.
control_service_set(d, device, state) == BackendSetBinary(d, device, state)

\* ControlService.set_light, lines 423-426.
control_service_set_light(d, intensity) == BackendSetLight(d, intensity)

\* The public methods of SettingsService (settings_service.py lines 140-196).
SettingsServiceMethods ==
    {"get_settings", "get_setting", "update_settings", "set_setting",
     "save_settings", "load_settings", "get_manual_settings",
     "get_manual_setting", "update_manual_settings", "set_manual_setting",
     "save_manual_settings", "is_manual_mode", "calculate_light_hours"}

\* gpio_automation_service.py line 92: settings.get('end_hour', 22); the
\* settings store always carries end_hour, so the stored value is used.
\* Lines 95-104: the window test on "HH:MM" strings, both ends included.
gpio_is_light_time(d, current_minutes) ==
    LET start_minutes == d.start_hour * 60
        end_minutes   == d.end_hour * 60
    IN IF d.start_hour <= d.end_hour
       THEN start_minutes <= current_minutes /\ current_minutes <= end_minutes
       ELSE current_minutes >= start_minutes \/ current_minutes <= end_minutes

\* GPIOAutomationService._automation_loop, lines 87-119: the light.
gpio_light_rule(d, bright, current_minutes) ==
    IF d.modes.light # "auto" THEN d
    ELSE IF gpio_is_light_time(d, current_minutes)
    THEN LET raw == (bright * 100) \div DefaultLightIntensity
             intensity == IF bright = NoReading THEN 100
                          ELSE IF raw > 100 THEN 100 ELSE IF raw < 0 THEN 0 ELSE raw
         IN control_service_set_light(d, intensity)
    ELSE control_service_set_light(d, 0)

\* GPIOAutomationService._automation_loop, lines 75-162: the rules applied
\* to one sensor reading.
gpio_automation_rules(d, temp, humid, bright, current_minutes) ==
    LET d1 == gpio_light_rule(d, bright, current_minutes)
        d2 == IF d1.modes.fan = "auto" THEN control_fan_auto(d1, humid) ELSE d1
        d3 == IF d2.modes.heat_mat = "auto" /\ temp # NoReading
              THEN control_service_set(d2, "heater", temp < DefaultTargetTemp)
              ELSE d2
    IN IF d3.modes.sprinkler = "auto" /\ humid # NoReading
       THEN control_service_set(d3, "sprinkler", humid < DefaultTargetHum)
       ELSE d3

\* One iteration of GPIOAutomationService._automation_loop, lines 68-172.
\* Line 71 calls self.settings_service.get_sensor_data(): a SettingsService
\* has no such method, the AttributeError is caught at line 170 and the
\* iteration ends without touching a device.
gpio_automation_tick(d, temp, humid, bright, current_minutes) ==
    IF "get_sensor_data" \in SettingsServiceMethods
    THEN gpio_automation_rules(d, temp, humid, bright, current_minutes)
    ELSE d

Args(t, h, b, m) ==
    [temperature |-> t, humidity |-> h, brightness |-> b, minutes |-> m]
NoArgs == [none |-> TRUE]

\* The light inputs of SpecDM.
NoonMinutes == 12 * 60

UpdateAutoDevicesWith(ts, hs, bs, ms) ==
    /\ \E t \in ts, h \in hs, b \in bs, m \in ms :
         dm' = [update_auto_devices(dm, t, h, b, m)
                    EXCEPT !.last_op = "update_auto_devices",
                           !.last_args = Args(t, h, b, m)]
    /\ UNCHANGED <<loopVars, sched, store, gm, i2c, sens, hw, sup, sync, svc, hist>>

GpioAutomationTickWith(ts, hs, bs, ms) ==
    /\ \E t \in ts, h \in hs, b \in bs, m \in ms :
         dm' = [gpio_automation_tick(dm, t, h, b, m)
                    EXCEPT !.last_op = "gpio_automation_tick",
                           !.last_args = Args(t, h, b, m)]
    /\ UNCHANGED <<loopVars, sched, store, gm, i2c, sens, hw, sup, sync, svc, hist>>

UpdateAutoDevices ==
    UpdateAutoDevicesWith(Temperatures, Humidities, {NoReading}, {NoonMinutes})

ControlFanAuto ==
    /\ \E h \in Humidities :
         dm' = [control_fan_auto(dm, h)
                    EXCEPT !.last_op = "control_fan_auto",
                           !.last_args = Args(NoReading, h, NoReading, NoonMinutes)]
    /\ UNCHANGED <<loopVars, sched, store, gm, i2c, sens, hw, sup, sync, svc, hist>>

SetDevice ==
    /\ \E device \in BinaryDevices, state \in BOOLEAN :
         dm' = [set_device(dm, device, state)
                    EXCEPT !.last_op = "set_device", !.last_args = NoArgs]
    /\ UNCHANGED <<loopVars, sched, store, gm, i2c, sens, hw, sup, sync, svc, hist>>

GpioAutomationTick ==
    GpioAutomationTickWith(Temperatures, Humidities, {NoReading}, {NoonMinutes})

LightUpdateAutoDevices ==
    UpdateAutoDevicesWith({NoReading}, {NoReading}, Brightnesses, ClockMinutes)

LightControlLightAuto ==
    /\ \E b \in Brightnesses, m \in ClockMinutes :
         dm' = [control_light_auto(dm, b, m)
                    EXCEPT !.last_op = "control_light_auto",
                           !.last_args = Args(NoReading, NoReading, b, m)]
    /\ UNCHANGED <<loopVars, sched, store, gm, i2c, sens, hw, sup, sync, svc, hist>>

LightGpioAutomationTick ==
    GpioAutomationTickWith({NoReading}, {NoReading}, Brightnesses, ClockMinutes)

LightSetDevice ==
    /\ \E intensity \in {0, 40} :
         dm' = [set_device_light(dm, intensity)
                    EXCEPT !.last_op = "set_device", !.last_args = NoArgs]
    /\ UNCHANGED <<loopVars, sched, store, gm, i2c, sens, hw, sup, sync, svc, hist>>

\* ControlService._water_plant, lines 528-531: set_pump(True), then sleep.
WaterPlantPumpOn ==
    /\ ~dm.watering
    /\ dm' = [BackendSetBinary(dm, "pump", TRUE)
                 EXCEPT !.watering = TRUE, !.last_op = "water_plant",
                        !.last_args = NoArgs]
    /\ UNCHANGED <<loopVars, sched, store, gm, i2c, sens, hw, sup, sync, svc, hist>>

\* ControlService._water_plant, lines 534-538: the sleep is over, set_pump(False).
WaterPlantPumpOff ==
    /\ dm.watering
    /\ dm' = [BackendSetBinary(dm, "pump", FALSE)
                 EXCEPT !.watering = FALSE, !.last_op = "water_plant",
                        !.last_args = NoArgs]
    /\ UNCHANGED <<loopVars, sched, store, gm, i2c, sens, hw, sup, sync, svc, hist>>

DMInitWith(windows, manual_sets) ==
    \E w \in windows, manual \in manual_sets :
        dm = [fan_state |-> FALSE, pump_state |-> FALSE, heater_state |-> FALSE,
              sprinkler_state |-> FALSE, light_state |-> 0,
              fan_hysteresis_on |-> FALSE, light_intensity |-> 0,
              modes |-> ModeMap(manual), start_hour |-> w[1], end_hour |-> w[2],
              watering |-> FALSE, last_op |-> "none", last_args |-> NoArgs]

\* settings_service.py lines 32-33: start_hour 6, end_hour 18.
DefaultLightWindow == <<6, 18>>

DMInit == DMInitWith({DefaultLightWindow}, ManualSets)

LightInit == DMInitWith(LightWindows, {{}, {"light"}})

LightNext ==
    \/ LightUpdateAutoDevices
    \/ LightControlLightAuto
    \/ LightGpioAutomationTick
    \/ LightSetDevice

DMNext ==
    \/ UpdateAutoDevices
    \/ ControlFanAuto
    \/ SetDevice
    \/ GpioAutomationTick
    \/ WaterPlantPumpOn
    \/ WaterPlantPumpOff


(***************************************************************************)
(*          PART 3: the scheduled watering loop (12:00 daily check)        *)
(*                                                                         *)
(* ControlService._watering_automation_loop and its twin                   *)
(* AutomationService._automation_loop.  sched is a record:                 *)
(*   svc            which of the two loops runs                            *)
(*   clock          wall clock, in ticks since Monday 00:00                *)
(*   pc             "compute" | "sleep", the position in the loop body     *)
(*   remaining      the local variable remaining, in whole seconds         *)
(*   is_manual      SettingsService.is_manual_mode()                       *)
(*   watering_days  the weekday numbers of the setting watering_days       *)
(*   late           total overshoot of the sleeps so far, in ticks         *)
(*   checks         number of _check_and_water calls so far                *)
(*   check_day, checks_that_day   observers: the calendar day of the last  *)
(*                  check and the number of checks made on that day        *)
(*   last_check     observer: what the last check saw and did              *)
(***************************************************************************)

\* Resolution of the modelled clock: datetime.now() has sub-second
\* resolution, the model keeps half seconds.
TicksPerSecond == 2
\* Total overshoot of time.sleep the model follows, in ticks.
MaxLate == 2
\* Number of checks the model follows.
MaxChecks == 3
\* The model follows the clock for this many days.
MaxDays == 2

SecondsPerDay == 86400
DayTicks == SecondsPerDay * TicksPerSecond
NoonTicks == 12 * 3600 * TicksPerSecond
\* control_service.py line 450 / automation_service.py line 74: min(remaining, 60)
SleepChunkSeconds == 60

Hour(t) == (t % DayTicks) \div (3600 * TicksPerSecond)
Minute(t) == ((t % DayTicks) \div (60 * TicksPerSecond)) % 60
\* time.localtime().tm_wday, 0 = Monday; the clock starts on a Monday.
Weekday(t) == (t \div DayTicks) % 7
CalendarDay(t) == t \div DayTicks

\* The moments at which the loop thread may start: 11:58:59.5, 11:59:59.0,
\* 11:59:59.5, 12:00:00.0 and 15:00:00.0 of the first day.
StartClocks == {NoonTicks - 60 * TicksPerSecond - 1, NoonTicks - TicksPerSecond,
                NoonTicks - 1, NoonTicks, NoonTicks + 3 * 3600 * TicksPerSecond}

\* the default ["MONDAY", "WEDNESDAY", "FRIDAY"], and ["TUESDAY"]
WateringDaySets == {{0, 2, 4}, {1}}

\* _get_seconds_until_noon, control_service.py lines 480-496.
\* int(delta.total_seconds()) truncates the fraction of a second.
get_seconds_until_noon(t) ==
    LET time_of_day == t % DayTicks
        delta == IF time_of_day < NoonTicks
                 THEN NoonTicks - time_of_day
                 ELSE NoonTicks + DayTicks - time_of_day
    IN delta \div TicksPerSecond

\* ControlService.should_water_today, lines 144-180.
should_water_today(t, watering_day_numbers) ==
    IF Weekday(t) \notin watering_day_numbers
    THEN FALSE
    ELSE IF Hour(t) = 12 /\ 50 <= Minute(t) /\ Minute(t) <= 10
    THEN TRUE
    ELSE FALSE

\* _check_and_water: ControlService lines 498-517 call should_water_today;
\* AutomationService lines 105-124 call control_service.should_water(), a
\* method ControlService does not define: the AttributeError is caught by
\* the except clause of _check_and_water and nothing is watered.
check_and_water(sc) ==
    IF sc.is_manual THEN FALSE
    ELSE IF sc.svc = "ControlService"
    THEN should_water_today(sc.clock, sc.watering_days)
    ELSE FALSE

NoCheck == [none |-> TRUE]

\* lines 455-458: seconds_until_noon = self._get_seconds_until_noon();
\* remaining = seconds_until_noon
GetSecondsUntilNoon ==
    /\ sched.pc = "compute"
    /\ sched' = [sched EXCEPT !.pc = "sleep",
                              !.remaining = get_seconds_until_noon(sched.clock)]
    /\ UNCHANGED <<loopVars, dm, store, gm, i2c, sens, hw, sup, sync, svc, hist>>

\* lines 462-465: one time.sleep(min(remaining, 60)); the sleep lasts at
\* least sleep_time and may overshoot.
SleepChunk ==
    /\ sched.pc = "sleep"
    /\ sched.remaining > 0
    /\ sched.clock < MaxDays * DayTicks
    /\ LET sleep_time == IF sched.remaining < SleepChunkSeconds
                         THEN sched.remaining ELSE SleepChunkSeconds
       IN \E over \in {0, 1} :
            /\ sched.late + over <= MaxLate
            /\ sched' = [sched EXCEPT
                           !.clock = @ + sleep_time * TicksPerSecond + over,
                           !.late = @ + over,
                           !.remaining = @ - sleep_time]
    /\ UNCHANGED <<loopVars, dm, store, gm, i2c, sens, hw, sup, sync, svc, hist>>

\* lines 468-470: the wait is over, self._check_and_water(); the call takes
\* less than a tick or one tick.
CheckAndWater ==
    /\ sched.pc = "sleep"
    /\ sched.remaining = 0
    /\ sched.checks < MaxChecks
    /\ \E took \in {0, 1} :
         sched' = [sched EXCEPT
            !.pc = "compute",
            !.clock = @ + took,
            !.checks = @ + 1,
            !.check_day = CalendarDay(sched.clock),
            !.checks_that_day =
                IF sched.last_check # NoCheck
                   /\ sched.check_day = CalendarDay(sched.clock)
                THEN @ + 1 ELSE 1,
            !.last_check = [hour |-> Hour(sched.clock),
                            minute |-> Minute(sched.clock),
                            weekday |-> Weekday(sched.clock),
                            watered |-> check_and_water(sched)]]
    /\ UNCHANGED <<loopVars, dm, store, gm, i2c, sens, hw, sup, sync, svc, hist>>

SchedInit ==
    \E s \in {"ControlService", "AutomationService"}, t \in StartClocks,
       m \in BOOLEAN, days \in WateringDaySets :
        sched = [svc |-> s, clock |-> t, pc |-> "compute", remaining |-> 0,
                 is_manual |-> m, watering_days |-> days, late |-> 0,
                 checks |-> 0, check_day |-> 0, checks_that_day |-> 0,
                 last_check |-> NoCheck]

SchedNext ==
    \/ GetSecondsUntilNoon
    \/ SleepChunk
    \/ CheckAndWater


(***************************************************************************)
(*        PART 4: the shared document devices_info.json on disk            *)
(*                                                                         *)
(* One reader (load_json_secure) and the ways the program writes the       *)
(* document: json_manager.save_json_secure (lock, temporary file, rename;  *)
(* two concurrent callers), the route toggle_device (no lock,              *)
(* open(..., 'w') in place) and bluetooth_service.save_json_secure (lock,  *)
(* open(..., 'w') in place).                                               *)
(* store is a record:                                                      *)
(*   initial     what was on disk before anybody ran: "doc", "missing" or  *)
(*               "malformed"                                               *)
(*   file        content of devices_info.json: Doc(v), Truncated, NoFile   *)
(*   tmp         content of devices_info.json.tmp: NoFile, Truncated, Doc  *)
(*   lock_ex     holder of the exclusive flock: "none", "bt" or a caller   *)
(*               of save_json_secure                                       *)
(*   lock_sh     TRUE while the reader holds the shared flock              *)
(*   load_pc, save_pc[w], toggle_pc, bt_pc   positions of the callers      *)
(*   save_data[w]  the argument data of the save_json_secure call of w     *)
(*   writes      number of documents handed to a write so far (the         *)
(*               version counter)                                          *)
(*   reads       number of completed load_json_secure calls                *)
(*   result      observer: what the last load_json_secure returned         *)
(***************************************************************************)

\* Number of documents the writers produce.
MaxWrites == 2
\* Number of load_json_secure calls.
MaxReads == 2

\* The threads that call json_manager.save_json_secure on the document
\* (the actuation loop and a request handler).
SaveProcs == {"loop", "route"}

Doc(v) == [version |-> v]
\* a file that open(path, 'w') has just created or truncated, with nothing
\* written to it yet (or any content json.load rejects)
Truncated == [truncated |-> TRUE]
NoFile == [nofile |-> TRUE]
NoResult == [noresult |-> TRUE]
\* the {} that load_json_secure returns on JSONDecodeError / FileNotFoundError
EmptyDefault == [default |-> TRUE]
\* an exception that leaves load_json_secure
Raised(exc) == [raised |-> exc]

IsDoc(c) == c \notin {Truncated, NoFile}

\* json_manager.py line 15: except (json.JSONDecodeError, FileNotFoundError)
CaughtByLoadJsonOnly == {"JSONDecodeError"}
CaughtByLoad == {"JSONDecodeError", "FileNotFoundError"}

\* open(file_path, "r") and json.load(f), json_manager.py lines 13-14: the
\* exception they end with, or "none".
ReadOutcome(c) ==
    IF c = NoFile THEN "FileNotFoundError"
    ELSE IF c = Truncated THEN "JSONDecodeError"
    ELSE "none"

\* The body of load_json_secure on the file as it is on disk, lines 12-16.
json_load(c) ==
    IF ReadOutcome(c) = "none" THEN c
    ELSE IF ReadOutcome(c) \in CaughtByLoad THEN EmptyDefault
    ELSE Raised(ReadOutcome(c))

\* load_json_secure, json_manager.py lines 10-11: flock(LOCK_SH) is granted
\* when nobody holds the exclusive lock.
LoadLock ==
    /\ store.load_pc = "idle"
    /\ store.reads < MaxReads
    /\ store.lock_ex = "none"
    /\ store' = [store EXCEPT !.load_pc = "locked", !.lock_sh = TRUE]
    /\ UNCHANGED <<loopVars, dm, sched, gm, i2c, sens, hw, sup, sync, svc, hist>>

\* load_json_secure, lines 12-18: open, json.load, return, unlock.
LoadRead ==
    /\ store.load_pc = "locked"
    /\ store' = [store EXCEPT !.load_pc = "idle", !.lock_sh = FALSE,
                              !.reads = @ + 1,
                              !.result = json_load(store.file)]
    /\ UNCHANGED <<loopVars, dm, sched, gm, i2c, sens, hw, sup, sync, svc, hist>>

\* flock(lockfile, LOCK_EX), json_manager.py line 24: granted when nobody
\* holds the lock, shared or exclusive.
ExclusiveLockFreeIgnored(st) == TRUE
ExclusiveLockFree(st) == st.lock_ex = "none" /\ ~st.lock_sh

\* save_json_secure(file_path, data), json_manager.py lines 20-24.
SaveLock ==
    \E w \in SaveProcs :
        /\ store.save_pc[w] = "idle"
        /\ store.writes < MaxWrites
        /\ ExclusiveLockFree(store)
        /\ store' = [store EXCEPT !.save_pc[w] = "locked", !.lock_ex = w,
                                  !.save_data[w] = Doc(store.writes + 1),
                                  !.writes = @ + 1]
        /\ UNCHANGED <<loopVars, dm, sched, gm, i2c, sens, hw, sup, sync, svc, hist>>

\* line 27: open(temp_path, "w")
SaveOpenTmp ==
    \E w \in SaveProcs :
        /\ store.save_pc[w] = "locked"
        /\ store' = [store EXCEPT !.save_pc[w] = "tmp_open", !.tmp = Truncated]
        /\ UNCHANGED <<loopVars, dm, sched, gm, i2c, sens, hw, sup, sync, svc, hist>>

\* lines 28-30: json.dump, flush, fsync
SaveWriteTmp ==
    \E w \in SaveProcs :
        /\ store.save_pc[w] = "tmp_open"
        /\ store' = [store EXCEPT !.save_pc[w] = "tmp_written",
                                  !.tmp = store.save_data[w]]
        /\ UNCHANGED <<loopVars, dm, sched, gm, i2c, sens, hw, sup, sync, svc, hist>>

\* line 31: os.replace(temp_path, file_path)
SaveReplace ==
    \E w \in SaveProcs :
        /\ store.save_pc[w] = "tmp_written"
        /\ store.tmp # NoFile
        /\ store' = [store EXCEPT !.save_pc[w] = "replaced", !.file = store.tmp,
                                  !.tmp = NoFile]
        /\ UNCHANGED <<loopVars, dm, sched, gm, i2c, sens, hw, sup, sync, svc, hist>>

\* lines 33-34: flock(LOCK_UN)
SaveUnlock ==
    \E w \in SaveProcs :
        /\ store.save_pc[w] = "replaced"
        /\ store' = [store EXCEPT !.save_pc[w] = "idle",
                                  !.lock_ex = IF @ = w THEN "none" ELSE @]
        /\ UNCHANGED <<loopVars, dm, sched, gm, i2c, sens, hw, sup, sync, svc, hist>>

\* The writing process dies inside save_json_secure: the kernel drops its
\* flock, the temporary file stays as it is.
SaveCrash ==
    \E w \in SaveProcs :
        /\ store.save_pc[w] \in {"locked", "tmp_open", "tmp_written"}
        /\ store' = [store EXCEPT !.save_pc[w] = "idle",
                                  !.lock_ex = IF @ = w THEN "none" ELSE @]
        /\ UNCHANGED <<loopVars, dm, sched, gm, i2c, sens, hw, sup, sync, svc, hist>>

\* toggle_device, api_frontend.py lines 124-126: open(..., 'r'), json.load;
\* a file that does not parse raises and the request ends there.
ToggleRead ==
    /\ store.toggle_pc = "idle"
    /\ store.writes < MaxWrites
    /\ IsDoc(store.file)
    /\ store' = [store EXCEPT !.toggle_pc = "read"]
    /\ UNCHANGED <<loopVars, dm, sched, gm, i2c, sens, hw, sup, sync, svc, hist>>

\* line 127: open(devices_info_file, 'w') truncates the document in place.
ToggleOpenW ==
    /\ store.toggle_pc = "read"
    /\ store' = [store EXCEPT !.toggle_pc = "opened", !.file = Truncated]
    /\ UNCHANGED <<loopVars, dm, sched, gm, i2c, sens, hw, sup, sync, svc, hist>>

\* line 128: json.dump, and the close that flushes it.
ToggleDump ==
    /\ store.toggle_pc = "opened"
    /\ store' = [store EXCEPT !.toggle_pc = "idle",
                              !.file = Doc(store.writes + 1),
                              !.writes = @ + 1]
    /\ UNCHANGED <<loopVars, dm, sched, gm, i2c, sens, hw, sup, sync, svc, hist>>

\* bluetooth_service.save_json_secure, lines 56-58: flock(LOCK_EX).
BtLock ==
    /\ store.bt_pc = "idle"
    /\ store.writes < MaxWrites
    /\ ExclusiveLockFree(store)
    /\ store' = [store EXCEPT !.bt_pc = "locked", !.lock_ex = "bt"]
    /\ UNCHANGED <<loopVars, dm, sched, gm, i2c, sens, hw, sup, sync, svc, hist>>

\* line 60: open(file_path, "w") truncates the document in place.
BtOpenW ==
    /\ store.bt_pc = "locked"
    /\ store' = [store EXCEPT !.bt_pc = "opened", !.file = Truncated]
    /\ UNCHANGED <<loopVars, dm, sched, gm, i2c, sens, hw, sup, sync, svc, hist>>

\* lines 61-63: json.dump, flush, fsync.
BtDump ==
    /\ store.bt_pc = "opened"
    /\ store' = [store EXCEPT !.bt_pc = "written",
                              !.file = Doc(store.writes + 1),
                              !.writes = @ + 1]
    /\ UNCHANGED <<loopVars, dm, sched, gm, i2c, sens, hw, sup, sync, svc, hist>>

\* lines 64-65: flock(LOCK_UN)
BtUnlock ==
    /\ store.bt_pc = "written"
    /\ store' = [store EXCEPT !.bt_pc = "idle", !.lock_ex = "none"]
    /\ UNCHANGED <<loopVars, dm, sched, gm, i2c, sens, hw, sup, sync, svc, hist>>

\* What is on disk before anybody runs: a complete document, no file yet
\* (first start) or content that does not parse.
InitialFile(kind) ==
    CASE kind = "doc"       -> Doc(0)
      [] kind = "missing"   -> NoFile
      [] kind = "malformed" -> Truncated

StoreInit ==
    \E kind \in {"doc", "missing", "malformed"} :
        store = [initial |-> kind, file |-> InitialFile(kind), tmp |-> NoFile,
                 lock_ex |-> "none", lock_sh |-> FALSE, load_pc |-> "idle",
                 save_pc |-> [w \in SaveProcs |-> "idle"],
                 save_data |-> [w \in SaveProcs |-> NoFile],
                 toggle_pc |-> "idle", bt_pc |-> "idle", writes |-> 0,
                 reads |-> 0, result |-> NoResult]

StoreNext ==
    \/ LoadLock
    \/ LoadRead
    \/ SaveLock
    \/ SaveOpenTmp
    \/ SaveWriteTmp
    \/ SaveReplace
    \/ SaveUnlock
    \/ SaveCrash
    \/ ToggleRead
    \/ ToggleOpenW
    \/ ToggleDump
    \/ BtLock
    \/ BtOpenW
    \/ BtDump
    \/ BtUnlock

----------------------------------------------------------------------------
(***************************************************************************)
(* Part 5.  gpio_manager.py: the stand-alone GPIO service.                 *)
(*                                                                         *)
(* gm models the module-level devices_info dictionary (line 30), the light *)
(* schedule of current_setting.json, and two observers:                    *)
(*   light, fan, heat_mat, sprinkler, pump   [mode, state] per device, the *)
(*                      light also with its intensity, in percent          *)
(*   start_time, end_time   the light schedule, as "HH:MM" strings         *)
(*   last_op, last_args     the handler that ran last and its readings     *)
(***************************************************************************)

\* The cloud settings format (sync_service.py lines 106-108).
OptimalTemperature == 22
OptimalHumidity == 55
OptimalLight == 50

GMTemperatures == {NoReading, 20}
GMHumidities == {NoReading, 70}
GMComponents == {"fan", "pump", "sprinkler", "heat_mat", "light"}

\* strftime("%H:%M") and the zero-padded schedule strings: a string is the
\* pair <<hours, minutes>>, compared as Python compares strings, from the
\* left.
HHMM(minutes) == <<minutes \div 60, minutes % 60>>
StrLeq(a, b) == a[1] < b[1] \/ (a[1] = b[1] /\ a[2] <= b[2])

\* gpio_manager.py line 59: min(1.0, max(0.0, bright / optimal_light)), here
\* in percent.
gm_light_intensity(bright) ==
    LET pct == (bright * 100) \div OptimalLight
    IN IF pct > 100 THEN 100 ELSE IF pct < 0 THEN 0 ELSE pct

\* GPIOController.apply_automation, lines 55-63.
gm_light_rule(g, bright, current_minutes) ==
    IF g.light.mode # "auto" THEN g
    ELSE IF StrLeq(g.start_time, HHMM(current_minutes))
            /\ StrLeq(HHMM(current_minutes), g.end_time)
         THEN [g EXCEPT !.light.state = "on",
                        !.light.intensity = IF bright # NoReading
                                            THEN gm_light_intensity(bright)
                                            ELSE 100]
         ELSE [g EXCEPT !.light.state = "off"]

\* lines 65-75
gm_fan_rule(g, temp, humid) ==
    IF g.fan.mode = "auto" /\ temp # NoReading
    THEN IF temp > OptimalTemperature
         THEN [g EXCEPT !.fan.state = "on"]
         ELSE IF humid # NoReading
              THEN [g EXCEPT !.fan.state =
                        IF humid > OptimalHumidity THEN "on" ELSE "off"]
              ELSE g
    ELSE [g EXCEPT !.fan.state = "off"]

\* lines 77-81
gm_heat_mat_rule(g, temp) ==
    IF g.heat_mat.mode = "auto" /\ temp # NoReading
    THEN [g EXCEPT !.heat_mat.state =
              IF temp < OptimalTemperature THEN "on" ELSE "off"]
    ELSE g

\* lines 83-87
gm_sprinkler_rule(g, humid) ==
    IF g.sprinkler.mode = "auto" /\ humid # NoReading
    THEN [g EXCEPT !.sprinkler.state =
              IF humid < OptimalHumidity THEN "on" ELSE "off"]
    ELSE g

\* GPIOController.apply_automation, lines 37-90, with a reading in
\* sensor_data.json.
apply_automation(g, temp, humid, bright, current_minutes) ==
    gm_sprinkler_rule(
        gm_heat_mat_rule(
            gm_fan_rule(gm_light_rule(g, bright, current_minutes), temp, humid),
            temp),
        humid)

\* What run() puts on the light pin, lines 129-148: the duty cycle in
\* percent.
gm_light_output(g) == IF g.light.state = "on" THEN g.light.intensity ELSE 0

ApplyAutomation ==
    /\ \E t \in GMTemperatures, h \in GMHumidities, b \in Brightnesses,
          m \in ClockMinutes :
         gm' = [apply_automation(gm, t, h, b, m)
                    EXCEPT !.last_op = "apply_automation",
                           !.last_args = Args(t, h, b, m)]
    /\ UNCHANGED <<loopVars, dm, sched, store, i2c, sens, hw, sup, sync, svc, hist>>

\* apply_automation with an empty sensor_data.json list (line 45).
ApplyAutomationNoSensorList ==
    /\ gm' = [gm EXCEPT !.last_op = "apply_automation_empty", !.last_args = NoArgs]
    /\ UNCHANGED <<loopVars, dm, sched, store, i2c, sens, hw, sup, sync, svc, hist>>

\* POST /device-control, lines 153-170.
update_device ==
    /\ \E component \in GMComponents, action \in {"on", "off"},
          intensity \in {NoReading, 40} :
         gm' = [gm EXCEPT ![component].state = action,
                          !.light.intensity =
                              IF component = "light" /\ intensity # NoReading
                              THEN intensity ELSE @,
                          !.last_op = "update_device", !.last_args = NoArgs]
    /\ UNCHANGED <<loopVars, dm, sched, store, i2c, sens, hw, sup, sync, svc, hist>>

\* POST /device-mode-edit, lines 172-192.
device_mode_edit ==
    /\ \E component \in {"light", "pump", "sprinkler"}, state \in {"on", "off"} :
         gm' = [gm EXCEPT ![component].mode = "manual",
                          ![component].state = state,
                          !.last_op = "device_mode_edit", !.last_args = NoArgs]
    /\ UNCHANGED <<loopVars, dm, sched, store, i2c, sens, hw, sup, sync, svc, hist>>

\* POST /current-setting, lines 199-207: a new light schedule.
receive_data ==
    /\ \E w \in LightWindows :
         gm' = [gm EXCEPT !.start_time = HHMM(w[1] * 60),
                          !.end_time = HHMM(w[2] * 60),
                          !.last_op = "receive_data", !.last_args = NoArgs]
    /\ UNCHANGED <<loopVars, dm, sched, store, i2c, sens, hw, sup, sync, svc, hist>>

\* devices_info.json as loaded at import (lines 30-31): every device off, in
\* automatic mode; the fan, whose mode no endpoint changes, in the mode the
\* file gives it.
GMInit ==
    \E w \in LightWindows, fan_mode \in {"auto", "manual"} :
        gm = [light |-> [mode |-> "auto", state |-> "off", intensity |-> 0],
              fan |-> [mode |-> fan_mode, state |-> "off"],
              heat_mat |-> [mode |-> "auto", state |-> "off"],
              sprinkler |-> [mode |-> "auto", state |-> "off"],
              pump |-> [mode |-> "auto", state |-> "off"],
              start_time |-> HHMM(w[1] * 60), end_time |-> HHMM(w[2] * 60),
              last_op |-> "none", last_args |-> NoArgs]

GMNext ==
    \/ ApplyAutomation
    \/ ApplyAutomationNoSensorList
    \/ update_device
    \/ device_mode_edit
    \/ receive_data

----------------------------------------------------------------------------
(***************************************************************************)
(* Part 6.  The software I2C bridge (SoftwareI2CBridge), in its two        *)
(* copies: sensor_service.py and devices/hardware.py.                      *)
(*                                                                         *)
(* The bridge drives two open-drain lines.  A bus state m carries          *)
(*   scl, sda_m     what the bridge puts on SCL and SDA: 1 released (input *)
(*                  with pull-up), 0 driven low                            *)
(*   slave_low      the addressed device is holding SDA low                *)
(* and observers of the waveform of the current transaction:               *)
(*   pending        the SDA level and the bridge's SDA drive at the last   *)
(*                  rising edge of SCL, until SCL falls again              *)
(*   pulses         the complete SCL pulses (low-high-low) of the byte     *)
(*                  being transferred, each with what pending held         *)
(*   written        per _write_byte call: the byte, its pulses and the     *)
(*                  value returned                                         *)
(*   nacked, after_nack   a _write_byte call returned false, and the bus   *)
(*                  events (START, STOP, PULSE) seen since                 *)
(*   starts, stops  START and STOP conditions on the bus                   *)
(*   n_read         bytes read by _read_byte                               *)
(*   raised         the transaction ended with OSError                     *)
(* i2c is the bus state left by the last transaction, with the copy of the *)
(* bridge in use, the method called and its arguments.                     *)
(***************************************************************************)

\* longest buffer written or read in one transaction
MaxBuf == 2

Variants == {"sensor_service", "hardware"}
\* The devices the bridge is handed to answer at 0x38 (AHTx0) and 0x10
\* (VEML7700), whose address bytes begin with a 0 bit; 0x48 stands for the
\* addresses from 0x40 on, which writeto and readfrom_into accept as well and
\* whose address bytes begin with a 1 bit.
Addresses == {56, 72}
\* The buffers written: the AHTx0 command bytes 0xAC and 0x33 alternating,
\* starting with either.
Buffers ==
    {[i \in 1..n |-> IF (i + k) % 2 = 0 THEN 172 ELSE 51] : n \in 0..MaxBuf, k \in 0..1}
ReadBytes == {165}
\* The written byte (address byte first) that the device does not
\* acknowledge, of n written bytes; 0: every byte is acknowledged.
NackAt(n) == 0..n

NoPulse == <<>>

\* (byte >> (7 - i)) & 1
Bit(byte, i) == (byte \div (2 ^ (7 - i))) % 2

\* The level of the SDA line: low when either side pulls it low.
Line(m) == IF m.sda_m = 0 \/ m.slave_low THEN 0 ELSE 1

BusEvent(m, e) ==
    [m EXCEPT !.after_nack = IF m.nacked THEN Append(@, e) ELSE @]

\* _set(sda, val): an SDA edge while SCL is high is a START or STOP
\* condition.
set_sda(m, val) ==
    LET m1 == [m EXCEPT !.sda_m = val]
    IN IF m.scl = 1 /\ Line(m) = 1 /\ Line(m1) = 0
       THEN BusEvent([m1 EXCEPT !.pending = NoPulse, !.starts = @ + 1], "START")
       ELSE IF m.scl = 1 /\ Line(m) = 0 /\ Line(m1) = 1
       THEN BusEvent([m1 EXCEPT !.pending = NoPulse, !.stops = @ + 1], "STOP")
       ELSE m1

\* _set(scl, val)
set_scl(m, val) ==
    IF val = 1 /\ m.scl = 0
    THEN [m EXCEPT !.scl = 1, !.pending = <<Line(m), m.sda_m>>]
    ELSE IF val = 0 /\ m.scl = 1
    THEN IF m.pending # NoPulse
         THEN BusEvent([m EXCEPT !.scl = 0, !.pulses = Append(@, m.pending),
                                 !.pending = NoPulse], "PULSE")
         ELSE [m EXCEPT !.scl = 0]
    ELSE m

\* sensor_service.py lines 62-68; hardware.py lines 340-344.
StartLeavesClockHigh(variant) == variant = "hardware"

i2c_start(m, variant) ==
    LET m1 == set_sda(set_scl(set_sda(m, 1), 1), 0)
    IN IF StartLeavesClockHigh(variant) THEN m1 ELSE set_scl(m1, 0)

\* sensor_service.py lines 70-76; hardware.py lines 346-350.
i2c_stop(m, variant) ==
    LET m1 == IF variant = "sensor_service" THEN set_scl(m, 0) ELSE m
    IN set_sda(set_scl(set_sda(m1, 0), 1), 1)

\* The recursive operators test m.scl first, so that the bus state is
\* computed pin operation by pin operation, in the order of the code.
RECURSIVE write_bits(_, _, _)
write_bits(m, byte, i) ==
    IF m.scl \notin {0, 1} \/ i = 8 THEN m
    ELSE write_bits(set_scl(set_scl(set_sda(m, Bit(byte, i)), 1), 0), byte, i + 1)

\* _write_byte, sensor_service.py lines 78-91; hardware.py lines 352-363.
\* device_acks: the device pulls SDA low for the acknowledge bit.
write_byte(m, byte, device_acks) ==
    LET m1 == write_bits([m EXCEPT !.pulses = <<>>], byte, 0)
        m2 == set_scl(set_sda([m1 EXCEPT !.slave_low = device_acks], 1), 1)
        ack == Line(m2) = 0
        m3 == set_scl(m2, 0)
    IN [m3 EXCEPT !.slave_low = FALSE,
                  !.written = Append(@, [byte |-> byte, pulses |-> m3.pulses,
                                         ack |-> ack, device_acks |-> device_acks]),
                  !.nacked = @ \/ ~ack]

RECURSIVE read_bits(_, _, _)
read_bits(m, data, i) ==
    IF m.scl \notin {0, 1} \/ i = 8 THEN m
    ELSE read_bits(set_scl(set_scl([m EXCEPT !.slave_low = Bit(data, i) = 0], 1), 0),
                   data, i + 1)

\* _read_byte, sensor_service.py lines 93-107; hardware.py lines 365-381.
\* data: the byte the device sends.
read_byte(m, ack, data) ==
    LET m1 == read_bits(set_sda([m EXCEPT !.pulses = <<>>], 1), data, 0)
        m2 == set_sda([m1 EXCEPT !.slave_low = FALSE], IF ack THEN 0 ELSE 1)
    IN [set_sda(set_scl(set_scl(m2, 1), 0), 1) EXCEPT !.n_read = @ + 1]

\* The value _write_byte returned last.
LastAck(m) == m.written[Len(m.written)].ack

\* A bridge that ignores a missing acknowledgment.
ContinueAfterNack(m, variant) == m

\* What a transaction does when _write_byte returns false: _stop() and
\* raise OSError.
AbortOnNack(m, variant) == [i2c_stop(m, variant) EXCEPT !.raised = TRUE]

RECURSIVE write_data(_, _, _, _, _)
write_data(m, variant, buffer, i, nack_at) ==
    IF i > Len(buffer) THEN m
    ELSE LET m1 == write_byte(m, buffer[i], Len(m.written) + 1 # nack_at)
         IN IF ~LastAck(m1) THEN AbortOnNack(m1, variant)
            ELSE write_data(m1, variant, buffer, i + 1, nack_at)

RECURSIVE read_data(_, _, _, _)
read_data(m, count, i, data) ==
    IF m.scl \notin {0, 1} \/ i >= count THEN m
    ELSE read_data(read_byte(m, i < count - 1, data), count, i + 1, data)

\* writeto, sensor_service.py lines 115-127; hardware.py lines 393-411.
writeto(m, variant, address, buffer, stop, nack_at) ==
    LET m1 == write_byte(i2c_start(m, variant), address * 2,
                         Len(m.written) + 1 # nack_at)
    IN IF ~LastAck(m1) THEN AbortOnNack(m1, variant)
       ELSE LET m2 == write_data(m1, variant, buffer, 1, nack_at)
            IN IF m2.raised THEN m2
               ELSE IF stop THEN i2c_stop(m2, variant) ELSE m2

\* readfrom_into, sensor_service.py lines 129-140; hardware.py lines 413-432.
readfrom_into(m, variant, address, count, stop, nack_at, data) ==
    LET m1 == write_byte(i2c_start(m, variant), address * 2 + 1,
                         Len(m.written) + 1 # nack_at)
    IN IF ~LastAck(m1) THEN AbortOnNack(m1, variant)
       ELSE LET m2 == read_data(m1, count, 0, data)
            IN IF stop THEN i2c_stop(m2, variant) ELSE m2

\* writeto_then_readfrom, sensor_service.py lines 142-144; hardware.py
\* lines 434-441: an OSError of writeto leaves the method.
writeto_then_readfrom(m, variant, address, out_buffer, count, stop, nack_at, data) ==
    LET m1 == writeto(m, variant, address, out_buffer, FALSE, nack_at)
    IN IF m1.raised THEN m1
       ELSE readfrom_into(m1, variant, address, count, stop, nack_at, data)

\* The observers at the start of a transaction.
NewTransaction(m) ==
    [m EXCEPT !.pulses = <<>>, !.written = <<>>, !.nacked = FALSE,
              !.after_nack = <<>>, !.starts = 0, !.stops = 0, !.n_read = 0,
              !.raised = FALSE]

Writeto ==
    /\ \E address \in Addresses, buffer \in Buffers, stop \in BOOLEAN :
       \E nack_at \in NackAt(1 + Len(buffer)) :
         i2c' = [i2c EXCEPT
                   !.bus = writeto(NewTransaction(i2c.bus), i2c.variant, address,
                                   buffer, stop, nack_at),
                   !.op = "writeto",
                   !.args = [address |-> address, buffer |-> buffer, count |-> 0,
                             stop |-> stop, nack_at |-> nack_at]]
    /\ UNCHANGED <<loopVars, dm, sched, store, gm, sens, hw, sup, sync, svc, hist>>

ReadfromInto ==
    /\ \E address \in Addresses, count \in 0..MaxBuf, stop \in BOOLEAN,
          nack_at \in NackAt(1), data \in ReadBytes :
         i2c' = [i2c EXCEPT
                   !.bus = readfrom_into(NewTransaction(i2c.bus), i2c.variant,
                                         address, count, stop, nack_at, data),
                   !.op = "readfrom_into",
                   !.args = [address |-> address, buffer |-> <<>>, count |-> count,
                             stop |-> stop, nack_at |-> nack_at]]
    /\ UNCHANGED <<loopVars, dm, sched, store, gm, sens, hw, sup, sync, svc, hist>>

WritetoThenReadfrom ==
    /\ \E address \in Addresses, buffer \in Buffers, count \in 0..MaxBuf,
          stop \in BOOLEAN, data \in ReadBytes :
       \E nack_at \in NackAt(2 + Len(buffer)) :
         i2c' = [i2c EXCEPT
                   !.bus = writeto_then_readfrom(NewTransaction(i2c.bus), i2c.variant,
                                                 address, buffer, count, stop,
                                                 nack_at, data),
                   !.op = "writeto_then_readfrom",
                   !.args = [address |-> address, buffer |-> buffer, count |-> count,
                             stop |-> stop, nack_at |-> nack_at]]
    /\ UNCHANGED <<loopVars, dm, sched, store, gm, sens, hw, sup, sync, svc, hist>>

\* __init__: both lines are inputs with pull-ups (released).
I2CInit ==
    \E variant \in Variants :
        i2c = [variant |-> variant,
               bus |-> [scl |-> 1, sda_m |-> 1, slave_low |-> FALSE,
                        pending |-> NoPulse, pulses |-> <<>>, written |-> <<>>,
                        nacked |-> FALSE, after_nack |-> <<>>, starts |-> 0,
                        stops |-> 0, n_read |-> 0, raised |-> FALSE],
               op |-> "none",
               args |-> [address |-> 0, buffer |-> <<>>, count |-> 0,
                         stop |-> TRUE, nack_at |-> 0]]

I2CNext ==
    \/ Writeto
    \/ ReadfromInto
    \/ WritetoThenReadfrom

----------------------------------------------------------------------------
(***************************************************************************)
(* Part 7: the sensor polling services.                                    *)
(*                                                                         *)
(* SensorService (src/sensor_service.py) polls the AHT10 and the VEML7700  *)
(* itself, in run() when the sensors were initialised and in _run_mock()   *)
(* otherwise; SensorReadingService (src/services/sensor_reading_service.py)*)
(* asks the device manager.  Both write the current reading to             *)
(* sensor_data.json and a rolling list to sensor_data_history.json.        *)
(*                                                                         *)
(* A value is a record that tells where it comes from and in which poll it *)
(* was produced, so that a measured value, a random one and a value of an  *)
(* earlier poll are different values.                                      *)
(***************************************************************************)
\* The polls of one run of the model.
MaxPolls == 3

\* data_list[:50] in SensorService.run and SensorService._run_mock.
SensorServiceWindow == 50
\* history_list[:15] in SensorReadingService._save_sensor_data.
SensorReadingServiceWindow == 15

SensorFields == {"temperature", "humidity", "brightness"}

\* Python's None in a reading.
None == [src |-> "none", cycle |-> 0]
\* A value read from the sensor in poll c.
Measured(c) == [src |-> "sensor", cycle |-> c]
\* round(20 + random.uniform(-2, 2), 2) and the like, drawn in poll c.
Random(c) == [src |-> "random", cycle |-> c]

\* The three polling loops.
SensorLoops == {"SensorService.run", "SensorService._run_mock",
                "SensorReadingService._read_loop"}

\* The window of the history list each loop keeps.
HistoryWindow(loop) ==
    IF loop = "SensorReadingService._read_loop"
    THEN SensorReadingServiceWindow
    ELSE SensorServiceWindow

\* The reading of a poll in which every sensor answered.
FullReading(c) ==
    [cycle |-> c, temperature |-> Measured(c), humidity |-> Measured(c),
     brightness |-> Measured(c)]

\* The outcomes of reading the AHT10: both properties read, or the first or
\* the second property access raises.
AhtOutcomes == {"ok", "temperature_raises", "humidity_raises"}
VemlOutcomes == {"ok", "raises"}

\* The sensor fields whose read failed in a poll.
FailedFields(aht, veml) ==
    (IF aht = "temperature_raises" THEN {"temperature", "humidity"} ELSE {})
        \cup (IF aht = "humidity_raises" THEN {"humidity"} ELSE {})
        \cup (IF veml = "raises" THEN {"brightness"} ELSE {})

\* The dict `data` of SensorService.run when it reaches save_callback: the
\* temperature and the humidity start as random numbers and the brightness as
\* None; each is overwritten by the assignment that was reached before the
\* sensor raised.
run_data(c, aht, veml) ==
    [cycle |-> c,
     temperature |-> IF aht \in {"ok", "humidity_raises"}
                     THEN Measured(c) ELSE Random(c),
     humidity |-> IF aht = "ok" THEN Measured(c) ELSE Random(c),
     brightness |-> IF veml = "ok" THEN Measured(c) ELSE None]

\* The dict `data` of SensorService._run_mock: random numbers only.
run_mock_data(c) ==
    [cycle |-> c, temperature |-> Random(c), humidity |-> Random(c),
     brightness |-> Random(c)]

\* GPIOdBackend.read_sensor and read_light_intensity as SensorReadingService
\* sees them: (None, None) when the AHT10 raises, None when the VEML7700 does.
read_loop_data(c, aht, veml) ==
    [cycle |-> c,
     temperature |-> IF aht = "ok" THEN Measured(c) ELSE None,
     humidity |-> IF aht = "ok" THEN Measured(c) ELSE None,
     brightness |-> IF veml = "ok" THEN Measured(c) ELSE None]

\* list[:n]
Slice(list, n) == IF Len(list) <= n THEN list ELSE SubSeq(list, 1, n)

\* The list the history file holds as the services load it: [] when the file
\* does not exist.
LoadHistory(file) == IF file.exists THEN file.list ELSE <<>>

\* The insertion without the slice: a list that grows with every poll.
InsertNewestUnbounded(data_list, data, window) == <<data>> \o data_list

\* data_list.insert(0, data); data_list = data_list[:window]
InsertNewest(data_list, data, window) == Slice(<<data>> \o data_list, window)

\* The history file after the services' update of it.
RecordHistory(file, data, window) ==
    [exists |-> TRUE, list |-> InsertNewest(LoadHistory(file), data, window)]

\* A history file of n readings of earlier polls, newest first.
EarlierHistory(n) ==
    [exists |-> TRUE, list |-> [i \in 1..n |-> FullReading(1 - i)]]

NoHistoryFile == [exists |-> FALSE, list |-> <<>>]

\* One poll of SensorService.run in which a reading is due (now - last_save
\* >= 2).  A raising save_callback leaves the file as it was (os.replace) and
\* ends the iteration in the outer handler; the history is updated when
\* 20 seconds have passed since its last update.
SensorServiceRunPoll ==
    /\ sens # <<>>
    /\ sens.loop = "SensorService.run"
    /\ sens.cycle < MaxPolls
    /\ \E aht \in AhtOutcomes, veml \in VemlOutcomes,
          save_ok \in BOOLEAN, history_due \in BOOLEAN, history_ok \in BOOLEAN :
        LET c == sens.cycle + 1
            data == run_data(c, aht, veml)
            recorded == save_ok /\ history_due /\ history_ok
        IN  sens' = [sens EXCEPT
                !.cycle = c,
                !.current = IF save_ok THEN data ELSE @,
                !.history = IF recorded
                            THEN RecordHistory(@, data, SensorServiceWindow)
                            ELSE @,
                !.failed = FailedFields(aht, veml),
                !.saved = save_ok,
                !.recorded = recorded]
    /\ UNCHANGED <<loopVars, dm, sched, store, gm, i2c, hw, sup, sync, svc, hist>>

\* One iteration of SensorService._run_mock.
SensorServiceMockPoll ==
    /\ sens # <<>>
    /\ sens.loop = "SensorService._run_mock"
    /\ sens.cycle < MaxPolls
    /\ \E save_ok \in BOOLEAN, history_due \in BOOLEAN, history_ok \in BOOLEAN :
        LET c == sens.cycle + 1
            data == run_mock_data(c)
            recorded == history_due /\ history_ok
        IN  sens' = [sens EXCEPT
                !.cycle = c,
                !.current = IF save_ok THEN data ELSE @,
                !.history = IF recorded
                            THEN RecordHistory(@, data, SensorServiceWindow)
                            ELSE @,
                !.failed = {},
                !.saved = save_ok,
                !.recorded = recorded]
    /\ UNCHANGED <<loopVars, dm, sched, store, gm, i2c, hw, sup, sync, svc, hist>>

\* One iteration of SensorReadingService._read_loop: _save_sensor_data
\* returns before it writes anything when one of the three values is None.
SensorReadingServicePoll ==
    /\ sens # <<>>
    /\ sens.loop = "SensorReadingService._read_loop"
    /\ sens.cycle < MaxPolls
    /\ \E aht \in {"ok", "temperature_raises"}, veml \in VemlOutcomes :
        LET c == sens.cycle + 1
            data == read_loop_data(c, aht, veml)
            skip == \E f \in SensorFields : data[f] = None
        IN  sens' = [sens EXCEPT
                !.cycle = c,
                !.current = IF skip THEN @ ELSE data,
                !.history = IF skip THEN @
                            ELSE RecordHistory(@, data,
                                               SensorReadingServiceWindow),
                !.failed = FailedFields(aht, veml),
                !.saved = ~skip,
                !.recorded = ~skip]
    /\ UNCHANGED <<loopVars, dm, sched, store, gm, i2c, hw, sup, sync, svc, hist>>

\* The services start over files an earlier run left: a current reading, and
\* a history that is missing, one short of its window, or full.
SensInit ==
    \E loop \in SensorLoops :
        \E file \in {NoHistoryFile, EarlierHistory(HistoryWindow(loop) - 1),
                     EarlierHistory(HistoryWindow(loop))} :
            sens = [loop |-> loop, cycle |-> 0, current |-> FullReading(0),
                    history |-> file, failed |-> {}, saved |-> FALSE,
                    recorded |-> FALSE]

SensNext ==
    \/ SensorServiceRunPoll
    \/ SensorServiceMockPoll
    \/ SensorReadingServicePoll

----------------------------------------------------------------------------
(***************************************************************************)
(* Part 8: GPIOdBackend (src/devices/hardware.py): the relay setters, the  *)
(* software PWM of the light and cleanup().                                *)
(*                                                                         *)
(* The backend is an object shared by the threads that call the device     *)
(* manager, so set_light is modelled in the steps between which another    *)
(* thread can run: the test and clearing of _light_pwm_running, the join   *)
(* with its timeout, and the start of the new duty thread.  Intensities    *)
(* are percentages; a GPIO write succeeds or raises inside _write_gpio.    *)
(***************************************************************************)
\* The set_* calls of one run of the model.
MaxCalls == 3

\* The threads that call set_light.
Callers == {1, 2}

\* The intensities passed to set_light: off, dimmed, full scale.
Intensities == {0, 50, 100}

Relays == {"fan", "pump", "heater", "sprinkler"}

\* A write whose exception leaves _write_gpio and reaches the caller.
write_gpio_raising(h, pin, state, ok) ==
    IF ok
    THEN [h EXCEPT !.lines[pin] = state]
    ELSE [h EXCEPT !.write_failed = TRUE, !.raised = TRUE]

\* self.Value.ACTIVE if state else self.Value.INACTIVE, written to the line
\* unless set_value raises; the exception is swallowed.
write_gpio(h, pin, state, ok) ==
    IF ok
    THEN [h EXCEPT !.lines[pin] = state]
    ELSE [h EXCEPT !.write_failed = TRUE]

\* max(0.0, min(1.0, intensity / 100.0)), as a percentage.
pwm_intensity(intensity) ==
    IF intensity < 0 THEN 0 ELSE IF intensity > 100 THEN 100 ELSE intensity

\* The duty threads that have not returned from _pwm_control.
AliveThreads(h) == {t \in 1..Len(h.threads) : h.threads[t].pc # "done"}

AllIdle(h) == \A c \in Callers : h.callers[c].pc = "idle"

\* set_fan, set_pump, set_heater, set_sprinkler.
SetRelay ==
    /\ hw # <<>>
    /\ hw.calls < MaxCalls
    /\ \E device \in Relays, state \in BOOLEAN, ok \in BOOLEAN :
        hw' = [write_gpio(hw, device, state, ok) EXCEPT
                  !.state[device] = state,
                  !.calls = @ + 1,
                  !.last = [op |-> "set_relay", device |-> device,
                            state |-> state, ok |-> ok,
                            after_failure |-> hw.write_failed]]
    /\ UNCHANGED <<loopVars, dm, sched, store, gm, i2c, sens, sup, sync, svc, hist>>

\* set_light up to the join: the intensity is stored, and a running PWM is
\* told to stop.
SetLightStop ==
    /\ hw # <<>>
    /\ hw.calls < MaxCalls
    /\ ~hw.cleaned
    /\ \E c \in Callers, intensity \in Intensities :
        /\ hw.callers[c].pc = "idle"
        /\ hw' = [hw EXCEPT
                  !.state.light = pwm_intensity(intensity),
                  !.light_intensity = pwm_intensity(intensity),
                  !.light_pwm_running = FALSE,
                  !.callers[c] =
                      [pc |-> IF hw.light_pwm_running /\ hw.light_pwm_thread # 0
                              THEN "join" ELSE "start",
                       intensity |-> pwm_intensity(intensity),
                       thread |-> hw.light_pwm_thread],
                  !.calls = @ + 1,
                  !.last = [op |-> "set_light", device |-> "light",
                            state |-> intensity > 0, ok |-> TRUE,
                            after_failure |-> hw.write_failed]]
    /\ UNCHANGED <<loopVars, dm, sched, store, gm, i2c, sens, sup, sync, svc, hist>>

\* self._light_pwm_thread.join(timeout=0.1) returns: the thread has ended, or
\* the timeout has passed.
SetLightJoin ==
    /\ hw # <<>>
    /\ \E c \in Callers, timed_out \in BOOLEAN :
        /\ hw.callers[c].pc = "join"
        /\ timed_out \/ hw.threads[hw.callers[c].thread].pc = "done"
        /\ hw' = [hw EXCEPT !.callers[c].pc = "start"]
    /\ UNCHANGED <<loopVars, dm, sched, store, gm, i2c, sens, sup, sync, svc, hist>>

\* The end of set_light: a new duty thread for an intensity above zero, a
\* write of the line otherwise.
SetLightStart ==
    /\ hw # <<>>
    /\ \E c \in Callers, ok \in BOOLEAN :
        /\ hw.callers[c].pc = "start"
        /\ hw' =
            IF hw.callers[c].intensity > 0
            THEN [hw EXCEPT
                    !.light_pwm_running = TRUE,
                    !.threads = Append(@, [intensity |-> hw.callers[c].intensity,
                                           pc |-> "check"]),
                    !.light_pwm_thread = Len(hw.threads) + 1,
                    !.callers[c].pc = "idle",
                    !.done_light = hw.callers[c].intensity]
            ELSE [write_gpio(hw, "light", FALSE, ok) EXCEPT
                    !.callers[c].pc = "idle",
                    !.done_light = hw.callers[c].intensity]
    /\ UNCHANGED <<loopVars, dm, sched, store, gm, i2c, sens, sup, sync, svc, hist>>

\* _pwm_control at the head of its loop: it returns when _light_pwm_running
\* is false, and otherwise switches the line on and sleeps.
PwmControlOn ==
    /\ hw # <<>>
    /\ \E t \in 1..Len(hw.threads), ok \in BOOLEAN :
        /\ hw.threads[t].pc = "check"
        /\ hw' =
            IF ~hw.light_pwm_running
            THEN [hw EXCEPT !.threads[t].pc = "done"]
            ELSE [write_gpio(hw, "light", TRUE, ok) EXCEPT
                    !.threads[t].pc = IF hw.threads[t].intensity >= 100
                                      THEN "check" ELSE "on",
                    !.wakeups = TRUE]
    /\ UNCHANGED <<loopVars, dm, sched, store, gm, i2c, sens, sup, sync, svc, hist>>

\* _pwm_control after on_time: the line is switched off for off_time.
PwmControlOff ==
    /\ hw # <<>>
    /\ \E t \in 1..Len(hw.threads), ok \in BOOLEAN :
        /\ hw.threads[t].pc = "on"
        /\ hw' = [write_gpio(hw, "light", FALSE, ok) EXCEPT
                    !.threads[t].pc = "check"]
    /\ UNCHANGED <<loopVars, dm, sched, store, gm, i2c, sens, sup, sync, svc, hist>>

\* cleanup(): the PWM is told to stop, the join returns, every line is
\* switched off and the request is released.
Cleanup ==
    /\ hw # <<>>
    /\ ~hw.cleaned
    /\ AllIdle(hw)
    /\ \E ok \in BOOLEAN :
        hw' = [hw EXCEPT
                  !.light_pwm_running = FALSE,
                  !.lines = IF ok
                            THEN [pin \in DOMAIN hw.lines |-> FALSE] ELSE @,
                  !.write_failed = @ \/ ~ok,
                  !.cleaned = TRUE,
                  !.last = [op |-> "cleanup", device |-> "light",
                            state |-> FALSE, ok |-> ok,
                            after_failure |-> hw.write_failed]]
    /\ UNCHANGED <<loopVars, dm, sched, store, gm, i2c, sens, sup, sync, svc, hist>>

\* The backend at the end of __init__: no PWM, every output off.
HWInit ==
    hw = [light_pwm_running |-> FALSE,
          light_pwm_thread |-> 0,
          light_intensity |-> 0,
          threads |-> <<>>,
          lines |-> [pin \in Relays \cup {"light"} |-> FALSE],
          state |-> [fan |-> FALSE, pump |-> FALSE, heater |-> FALSE,
                     sprinkler |-> FALSE, light |-> 0],
          callers |-> [c \in Callers |->
                          [pc |-> "idle", intensity |-> 0, thread |-> 0]],
          calls |-> 0,
          done_light |-> 0,
          wakeups |-> FALSE,
          write_failed |-> FALSE,
          raised |-> FALSE,
          cleaned |-> FALSE,
          last |-> [op |-> "init", device |-> "light", state |-> FALSE,
                    ok |-> TRUE, after_failure |-> FALSE]]

HWNext ==
    \/ SetRelay
    \/ SetLightStop
    \/ SetLightJoin
    \/ SetLightStart
    \/ PwmControlOn
    \/ PwmControlOff
    \/ Cleanup

----------------------------------------------------------------------------
(***************************************************************************)
(* Part 9: start-up, the three background loops and shutdown() (app.py),   *)
(* and the choice of the backend by DeviceManager (src/devices/manager.py).*)
(*                                                                         *)
(* A loop is modelled at the grain of its iterations: the test at the head *)
(* of its while, the body with the failure that happens in it, the sleep.  *)
(* What the body of the actuation loop does to the devices is Part 1; here *)
(* the device document changes only in shutdown().                         *)
(***************************************************************************)
\* The iterations a loop starts after shutdown() has signalled the loops.
MaxLateIterations == 2

\* The loops app.py starts: GPIOController, SensorService and
\* periodic_data_terrarium_sender.
SupLoops == {"actuation", "sensor", "sender"}

\* The loops that test a running attribute at the head of their while; the
\* sender's loop is `while True`.
LoopsWithRunningFlag == {"actuation", "sensor"}

\* What can go wrong in one iteration of a loop.
IterationFailures(loop) ==
    CASE loop = "actuation" -> {"none", "store", "missing_key", "gpio"}
      [] loop = "sensor" -> {"none", "store", "sensor"}
      [] loop = "sender" -> {"none", "network"}

\* A handler that lets every failure of an iteration end the thread.
NothingCaught(loop, failure) == failure = "none"

\* The bodies of the loops are inside `try: ... except Exception`, and all of
\* these failures are Exceptions (OSError, KeyError, TypeError,
\* json.JSONDecodeError, requests.RequestException).
CaughtInIteration(loop, failure) == TRUE

\* The methods GPIOdBackend has, its own and BaseBackend's.
GPIOdBackendMethods ==
    {"__init__", "_setup_all_gpio", "_init_sensors", "_write_gpio",
     "_pwm_control", "set_fan", "set_heater", "set_sprinkler", "set_light",
     "set_pump", "read_sensor", "read_light_intensity", "cleanup",
     "get_fan_state", "get_light_state", "get_pump_state",
     "get_heater_state", "get_sprinkler_state"}

\* GPIOdBackend.__init__ returns: gpiod imports, the chip opens, and the
\* method _setup_output it calls for each output exists.
GPIOdBackendInitSucceeds(import_ok, chip_ok) ==
    import_ok /\ chip_ok /\ "_setup_output" \in GPIOdBackendMethods

\* A selection without the handler: the failure of the constructor leaves
\* _create_backend.
create_backend_unguarded(use_hardware, import_ok, chip_ok) ==
    IF ~use_hardware THEN "MockBackend"
    ELSE IF GPIOdBackendInitSucceeds(import_ok, chip_ok) THEN "GPIOdBackend"
    ELSE "raised"

\* DeviceManager._create_backend.
create_backend(use_hardware, import_ok, chip_ok) ==
    IF ~use_hardware THEN "MockBackend"
    ELSE IF GPIOdBackendInitSucceeds(import_ok, chip_ok) THEN "GPIOdBackend"
    ELSE "MockBackend"

\* The loop GPIOController.run enters.
controller_loop(gpio_available, request_ok) ==
    IF ~gpio_available THEN "_run_mock"
    ELSE IF request_ok THEN "_run_gpio"
    ELSE "_run_mock"

\* What `for device in devices_info.items()` binds device to: the (key,
\* value) tuples of the dict, not the dicts of the devices.
ItemsOfDict == "tuple"

\* device["state"] = "off" on what the loop variable holds: a tuple does not
\* support item assignment (TypeError).
ItemAssignmentRaises(item) == item = "tuple"

\* The device document after the last block of shutdown(): when the
\* assignment raises for the first device, the handler prints and nothing
\* is saved; only a document without devices gets as far as
\* save_json_secure.
shutdown_devices(doc) ==
    IF DOMAIN doc # {} /\ ItemAssignmentRaises(ItemsOfDict)
    THEN doc
    ELSE [device \in DOMAIN doc |-> "off"]

SupDevices == {"fan", "light"}

\* DeviceManager.__init__ chooses its backend.
CreateBackend ==
    /\ sup # <<>>
    /\ sup.backend = "none"
    /\ \E use_hardware \in BOOLEAN, import_ok \in BOOLEAN, chip_ok \in BOOLEAN :
        sup' = [sup EXCEPT
                  !.backend = create_backend(use_hardware, import_ok, chip_ok),
                  !.use_hardware = use_hardware,
                  !.init_ok = GPIOdBackendInitSucceeds(import_ok, chip_ok)]
    /\ UNCHANGED <<loopVars, dm, sched, store, gm, i2c, sens, hw, sync, svc, hist>>

\* A thread begins: GPIOController.run chooses its loop (gpiod available or
\* not, the request of the lines succeeding or not), SensorService.run
\* chooses run or _run_mock, the sender enters its while.
ThreadStart ==
    /\ sup # <<>>
    /\ \E loop \in SupLoops, available \in BOOLEAN, ok \in BOOLEAN :
        /\ sup.loops[loop].pc = "new"
        /\ loop = "sender" => (available /\ ok)
        /\ loop = "sensor" => available
        /\ sup' = [sup EXCEPT
                  !.loops[loop].pc = "check",
                  !.loops[loop].body =
                      CASE loop = "actuation" -> controller_loop(available, ok)
                        [] loop = "sensor" -> IF ok THEN "run" ELSE "_run_mock"
                        [] loop = "sender" -> "periodic_data_terrarium_sender",
                  !.gpio_available = IF loop = "actuation" THEN available ELSE @,
                  !.request_ok = IF loop = "actuation" THEN ok ELSE @]
    /\ UNCHANGED <<loopVars, dm, sched, store, gm, i2c, sens, hw, sync, svc, hist>>

\* The head of the while: the loop goes on when its running attribute is
\* set, or when it has none.
ThreadCheck ==
    /\ sup # <<>>
    /\ \E loop \in SupLoops :
        /\ sup.loops[loop].pc = "check"
        /\ sup.loops[loop].late < MaxLateIterations
        /\ sup' =
            IF loop \in LoopsWithRunningFlag /\ ~sup.running[loop]
            THEN [sup EXCEPT !.loops[loop].pc = "done"]
            ELSE [sup EXCEPT
                    !.loops[loop].pc = "body",
                    !.loops[loop].late =
                        IF sup.signalled[loop] THEN @ + 1 ELSE @]
    /\ UNCHANGED <<loopVars, dm, sched, store, gm, i2c, sens, hw, sync, svc, hist>>

\* The body of one iteration, with what fails in it.
ThreadBody ==
    /\ sup # <<>>
    /\ \E loop \in SupLoops :
        \E failure \in IterationFailures(loop) :
            /\ sup.loops[loop].pc = "body"
            /\ sup' = [sup EXCEPT
                  !.loops[loop].pc = IF CaughtInIteration(loop, failure)
                                     THEN "sleep" ELSE "crashed",
                  !.last = [loop |-> loop, failure |-> failure]]
    /\ UNCHANGED <<loopVars, dm, sched, store, gm, i2c, sens, hw, sync, svc, hist>>

\* time.sleep at the end of the iteration.
ThreadSleep ==
    /\ sup # <<>>
    /\ \E loop \in SupLoops :
        /\ sup.loops[loop].pc = "sleep"
        /\ sup' = [sup EXCEPT !.loops[loop].pc = "check"]
    /\ UNCHANGED <<loopVars, dm, sched, store, gm, i2c, sens, hw, sync, svc, hist>>

\* shutdown(): gpio_thread.running = False.  The sender has no flag and is
\* not mentioned by shutdown(); from here on it counts as signalled.
ShutdownStopGpio ==
    /\ sup # <<>>
    /\ sup.shutdown = "no"
    /\ \A loop \in SupLoops : sup.loops[loop].pc # "new"
    /\ sup' = [sup EXCEPT !.shutdown = "join_gpio",
                          !.running.actuation = FALSE,
                          !.signalled.actuation = TRUE,
                          !.signalled.sender = TRUE]
    /\ UNCHANGED <<loopVars, dm, sched, store, gm, i2c, sens, hw, sync, svc, hist>>

\* gpio_thread.join(timeout=2) returns; sensor_thread.running = False.
ShutdownStopSensor ==
    /\ sup # <<>>
    /\ sup.shutdown = "join_gpio"
    /\ \E timed_out \in BOOLEAN :
        /\ timed_out \/ sup.loops.actuation.pc = "done"
        /\ sup' = [sup EXCEPT !.shutdown = "join_sensor",
                              !.running.sensor = FALSE,
                              !.signalled.sensor = TRUE,
                              !.joined.actuation = ~timed_out]
    /\ UNCHANGED <<loopVars, dm, sched, store, gm, i2c, sens, hw, sync, svc, hist>>

\* sensor_thread.join(timeout=2) returns (bluetooth_thread is None), the
\* devices are to be switched off in devices_info.json, shutdown returns.
ShutdownDevicesOff ==
    /\ sup # <<>>
    /\ sup.shutdown = "join_sensor"
    /\ \E timed_out \in BOOLEAN :
        /\ timed_out \/ sup.loops.sensor.pc = "done"
        /\ sup' = [sup EXCEPT !.shutdown = "done",
                              !.devices = shutdown_devices(@),
                              !.joined.sensor = ~timed_out]
    /\ UNCHANGED <<loopVars, dm, sched, store, gm, i2c, sens, hw, sync, svc, hist>>

\* The program before its threads are started, over a device document that
\* the loops and the API have left.
SupInit ==
    \E devices \in [SupDevices -> {"on", "off"}] :
        sup = [backend |-> "none", use_hardware |-> FALSE, init_ok |-> FALSE,
               loops |-> [loop \in SupLoops |->
                             [pc |-> "new", body |-> "none", late |-> 0]],
               gpio_available |-> FALSE, request_ok |-> FALSE,
               last |-> [loop |-> "sender", failure |-> "none"],
               running |-> [loop \in LoopsWithRunningFlag |-> TRUE],
               signalled |-> [loop \in SupLoops |-> FALSE],
               joined |-> [loop \in LoopsWithRunningFlag |-> FALSE],
               shutdown |-> "no",
               devices |-> devices]

SupNext ==
    \/ CreateBackend
    \/ ThreadStart
    \/ ThreadCheck
    \/ ThreadBody
    \/ ThreadSleep
    \/ ShutdownStopGpio
    \/ ShutdownStopSensor
    \/ ShutdownDevicesOff

----------------------------------------------------------------------------
(***************************************************************************)
(* Part 10: the offline queue of SyncService (src/services/                *)
(* sync_service.py).  A change is a number; send_to_external succeeds or   *)
(* fails (it returns False on every exception).                            *)
(***************************************************************************)
\* The changes that can be queued.
MaxChanges == 3
\* The sends of one change within one call of sync_queued_changes.
MaxAttempts == 3

Changes == 1..MaxChanges

\* The queues load_offline_queue can leave: every order of distinct changes.
InitialQueues ==
    {q \in UNION {[1..n -> Changes] : n \in 0..MaxChanges} :
        \A i, j \in 1..Len(q) : i # j => q[i] # q[j]}

\* _sync_loop begins an iteration: sync_queued_changes is called.
SyncLoopTick ==
    /\ sync # <<>>
    /\ sync.pc = "sleep"
    /\ sync' = [sync EXCEPT !.pc = "sync",
                            !.attempts = [c \in Changes |-> 0],
                            !.failed = {},
                            !.all_success = TRUE,
                            !.returned = FALSE]
    /\ UNCHANGED <<loopVars, dm, sched, store, gm, i2c, sens, hw, sup, svc, hist>>

\* One pass of the while of sync_queued_changes: the head of the queue is
\* taken and sent, and put back at the tail when the send failed.
SendQueuedChange ==
    /\ sync # <<>>
    /\ sync.pc = "sync"
    /\ sync.queue # <<>>
    /\ sync.attempts[Head(sync.queue)] < MaxAttempts
    /\ \E success \in BOOLEAN :
        LET change == Head(sync.queue)
        IN  sync' = [sync EXCEPT
                !.queue = IF success THEN Tail(@) ELSE Append(Tail(@), change),
                !.attempts[change] = @ + 1,
                !.failed = IF success THEN @ ELSE @ \cup {change},
                !.all_success = @ /\ success]
    /\ UNCHANGED <<loopVars, dm, sched, store, gm, i2c, sens, hw, sup, svc, hist>>

\* The while ends when change_queue.empty(); the queue is saved and
\* all_success returned.
SyncQueuedChangesReturn ==
    /\ sync # <<>>
    /\ sync.pc = "sync"
    /\ sync.queue = <<>>
    /\ sync' = [sync EXCEPT !.pc = "sleep", !.returned = TRUE]
    /\ UNCHANGED <<loopVars, dm, sched, store, gm, i2c, sens, hw, sup, svc, hist>>

\* add_change_to_queue, from another thread.
AddChangeToQueue ==
    /\ sync # <<>>
    /\ \E change \in Changes :
        /\ \A i \in 1..Len(sync.queue) : sync.queue[i] # change
        /\ sync.attempts[change] = 0
        /\ sync' = [sync EXCEPT !.queue = Append(@, change),
                                !.returned = FALSE]
    /\ UNCHANGED <<loopVars, dm, sched, store, gm, i2c, sens, hw, sup, svc, hist>>

SyncInit ==
    \E queue \in InitialQueues :
        sync = [queue |-> queue, pc |-> "sleep",
                attempts |-> [c \in Changes |-> 0], failed |-> {},
                all_success |-> TRUE, returned |-> FALSE]

SyncNext ==
    \/ SyncLoopTick
    \/ SendQueuedChange
    \/ SyncQueuedChangesReturn
    \/ AddChangeToQueue

----------------------------------------------------------------------------
(***************************************************************************)
(* Part 11: start, stop and the loop thread of a background service        *)
(* (src/services/automation_service.py, control_service.py,                *)
(* gpio_automation_service.py, external_terrarium_service.py and           *)
(* sync_service.py).  The five services share one pattern: a running flag, *)
(* a handle to the thread started last, and a loop `while running`.        *)
(***************************************************************************)
\* The threads one service can start.
MaxThreads == 3

Services == {"AutomationService", "ControlService", "GPIOAutomationService",
             "ExternalTerrariumService", "SyncService"}

ServiceThreads == 1..MaxThreads

\* The threads that have been started and have not left the loop.
InLoop == {t \in ServiceThreads : svc.threads[t] \in {"check", "iteration", "sleep"}}

\* start(): returns when the flag is set; otherwise sets the flag, creates
\* a thread, keeps it as the service's thread and starts it.
ServiceStart ==
    /\ svc # <<>>
    /\ svc.caller = "idle"
    /\ svc.started < MaxThreads
    /\ svc' = IF svc.running
              THEN [svc EXCEPT !.last = "start"]
              ELSE [svc EXCEPT !.running = TRUE,
                               !.started = @ + 1,
                               !.thread = svc.started + 1,
                               !.threads[svc.started + 1] = "check",
                               !.last = "start"]
    /\ UNCHANGED <<loopVars, dm, sched, store, gm, i2c, sens, hw, sup, sync, hist>>

\* stop(): clears the flag and, when a thread was ever started, joins the
\* thread started last with a timeout.
ServiceStop ==
    /\ svc # <<>>
    /\ svc.caller = "idle"
    /\ svc' = [svc EXCEPT !.running = FALSE,
                          !.caller = IF svc.thread # 0 THEN "join" ELSE "idle",
                          !.last = "stop"]
    /\ UNCHANGED <<loopVars, dm, sched, store, gm, i2c, sens, hw, sup, sync, hist>>

\* join(timeout) returns because the thread has ended.
ServiceJoinEnded ==
    /\ svc # <<>>
    /\ svc.caller = "join"
    /\ svc.threads[svc.thread] = "exited"
    /\ svc' = [svc EXCEPT !.caller = "idle", !.last = "joined"]
    /\ UNCHANGED <<loopVars, dm, sched, store, gm, i2c, sens, hw, sup, sync, hist>>

\* join(timeout) returns because the timeout has passed: the thread is in
\* an iteration or in a sleep that lasts longer.
ServiceJoinTimedOut ==
    /\ svc # <<>>
    /\ svc.caller = "join"
    /\ svc.threads[svc.thread] \in {"iteration", "sleep"}
    /\ svc' = [svc EXCEPT !.caller = "idle", !.last = "timeout"]
    /\ UNCHANGED <<loopVars, dm, sched, store, gm, i2c, sens, hw, sup, sync, hist>>

\* The loop condition `while running` of thread t.
ServiceLoopCheck(t) ==
    /\ svc # <<>>
    /\ svc.threads[t] = "check"
    /\ svc' = [svc EXCEPT !.threads[t] = IF svc.running THEN "iteration" ELSE "exited",
                          !.last = "check"]
    /\ UNCHANGED <<loopVars, dm, sched, store, gm, i2c, sens, hw, sup, sync, hist>>

\* The work of one iteration of thread t, up to its sleep.
ServiceLoopIterate(t) ==
    /\ svc # <<>>
    /\ svc.threads[t] = "iteration"
    /\ svc' = [svc EXCEPT !.threads[t] = "sleep", !.last = "iterate"]
    /\ UNCHANGED <<loopVars, dm, sched, store, gm, i2c, sens, hw, sup, sync, hist>>

\* The sleep of thread t ends and the loop condition is evaluated next.
ServiceLoopWake(t) ==
    /\ svc # <<>>
    /\ svc.threads[t] = "sleep"
    /\ svc' = [svc EXCEPT !.threads[t] = "check", !.last = "wake"]
    /\ UNCHANGED <<loopVars, dm, sched, store, gm, i2c, sens, hw, sup, sync, hist>>

\* After construction: flag clear, no thread.
SvcInit ==
    \E s \in Services :
        svc = [service |-> s, running |-> FALSE, thread |-> 0, started |-> 0,
               threads |-> [t \in ServiceThreads |-> "unborn"],
               caller |-> "idle", last |-> "none"]

SvcNext ==
    \/ ServiceStart
    \/ ServiceStop
    \/ ServiceJoinEnded
    \/ ServiceJoinTimedOut
    \/ \E t \in ServiceThreads : ServiceLoopCheck(t)
    \/ \E t \in ServiceThreads : ServiceLoopIterate(t)
    \/ \E t \in ServiceThreads : ServiceLoopWake(t)

----------------------------------------------------------------------------
(***************************************************************************)
(* Part 12: the buffers of HistoryService (src/services/                   *)
(* history_service.py).  A data point is a number; the value a buffer      *)
(* holds for a data point is the number of that point, so that two buffers *)
(* agree at an index exactly when they hold the same point there.          *)
(***************************************************************************)
\* MAX_POINTS, the maxlen of the four deques (48 in the code).
MaxPoints == 3
\* The entries of sensor_history.json.
MaxEntries == 2
\* The data points one run creates.
MaxDataPoints == 4

HistoryFields == {"timestamp", "temperature", "humidity", "brightness"}

\* An entry of sensor_history.json: the fields it has, and whether its
\* timestamp parses and is younger than the cutoff.
HistoryEntries ==
    [fields : {HistoryFields} \cup {HistoryFields \ {f} : f \in HistoryFields},
     timestamp : {"recent", "old", "malformed"}]

HistoryFiles == UNION {[1..n -> HistoryEntries] : n \in 0..MaxEntries}

\* deque(maxlen=MAX_POINTS).append
deque_append(q, v) ==
    IF Len(q) = MaxPoints THEN Append(Tail(q), v) ELSE Append(q, v)

\* The body of the for loop of _load_history_from_disk, lines 79-88, for
\* one entry that stands for data point p: the appends made before a
\* KeyError stay.
load_entry(h, entry, p) ==
    IF "timestamp" \notin entry.fields \/ entry.timestamp # "recent" THEN h
    ELSE IF "temperature" \notin entry.fields THEN h
    ELSE LET h1 == [h EXCEPT !.temperature_history = deque_append(@, p)]
         IN IF "humidity" \notin entry.fields THEN h1
            ELSE LET h2 == [h1 EXCEPT !.humidity_history = deque_append(@, p)]
                 IN IF "brightness" \notin entry.fields THEN h2
                    ELSE [h2 EXCEPT !.brightness_history = deque_append(@, p),
                                    !.timestamps = deque_append(@, p)]

\* _load_history_from_disk, lines 69-95: the entries of the file in order;
\* entry i stands for data point first + i.
RECURSIVE load_history_from_disk(_, _, _)
load_history_from_disk(h, file, first) ==
    IF file = <<>> THEN h
    ELSE load_history_from_disk(load_entry(h, Head(file), first + 1),
                                Tail(file), first + 1)

\* add_data_point, lines 117-137.
add_data_point(h, p) ==
    [h EXCEPT !.temperature_history = deque_append(@, p),
              !.humidity_history = deque_append(@, p),
              !.brightness_history = deque_append(@, p),
              !.timestamps = deque_append(@, p)]

LoadHistoryFromDisk ==
    /\ hist # <<>>
    /\ \E file \in HistoryFiles :
        /\ hist.points + Len(file) <= MaxDataPoints
        /\ hist' = [load_history_from_disk(hist, file, hist.points)
                        EXCEPT !.points = @ + Len(file),
                               !.last_op = "load_history_from_disk"]
    /\ UNCHANGED <<loopVars, dm, sched, store, gm, i2c, sens, hw, sup, sync, svc>>

AddDataPoint ==
    /\ hist # <<>>
    /\ hist.points < MaxDataPoints
    /\ hist' = [add_data_point(hist, hist.points + 1)
                    EXCEPT !.points = @ + 1, !.last_op = "add_data_point"]
    /\ UNCHANGED <<loopVars, dm, sched, store, gm, i2c, sens, hw, sup, sync, svc>>

\* HistoryService.__init__, lines 56-62, before its _load_history_from_disk.
HistInit ==
    hist = [temperature_history |-> <<>>, humidity_history |-> <<>>,
            brightness_history |-> <<>>, timestamps |-> <<>>,
            points |-> 0, last_op |-> "none"]

HistNext ==
    \/ LoadHistoryFromDisk
    \/ AddDataPoint

----------------------------------------------------------------------------
\* The value of a machine's variable while another machine runs.
DMIdle == dm = <<>>
SchedIdle == sched = <<>>
StoreIdle == store = <<>>
GMIdle == gm = <<>>
I2CIdle == i2c = <<>>
SensIdle == sens = <<>>
HWIdle == hw = <<>>
SupIdle == sup = <<>>
SyncIdle == sync = <<>>
SvcIdle == svc = <<>>
HistIdle == hist = <<>>

\* The variables of the loop while another machine runs.
LoopIdle ==
    /\ backend = "mock"
    /\ devices_info_file = [fan |-> "off", heat_mat |-> "off", sprinkler |-> "off",
                            pump |-> "off", turned_on_at |-> 0,
                            manual_trigger |-> FALSE]
    /\ mode = [device \in {"fan", "heat_mat", "sprinkler"} |-> "manual"]
    /\ settings = [target_temp |-> TargetTemp, target_hum |-> TargetHum,
                   watering_time |-> 1, water_seconds |-> 1]
    /\ sensor_data_file = "missing"
    /\ devices_info = devices_info_file
    /\ devices_changes_made = FALSE
    /\ expired = FALSE
    /\ pc = "load"
    /\ now = 1
    /\ fan_line = FALSE /\ sprinkler_line = FALSE /\ pump_line = FALSE
    /\ heat_duty = 0
    /\ ext_calls = 0
    /\ tick = IdleTick
    /\ last_saved = NoDoc

Init == LoopInit /\ DMIdle /\ SchedIdle /\ StoreIdle /\ GMIdle /\ I2CIdle /\ SensIdle /\ HWIdle /\ SupIdle /\ SyncIdle /\ SvcIdle /\ HistIdle
Next == LoopNext
Spec == Init /\ [][Next]_vars

InitSched == LoopIdle /\ DMIdle /\ SchedInit /\ StoreIdle /\ GMIdle /\ I2CIdle /\ SensIdle /\ HWIdle /\ SupIdle /\ SyncIdle /\ SvcIdle /\ HistIdle
SpecSched == InitSched /\ [][SchedNext]_vars

InitStore == LoopIdle /\ DMIdle /\ SchedIdle /\ StoreInit /\ GMIdle /\ I2CIdle /\ SensIdle /\ HWIdle /\ SupIdle /\ SyncIdle /\ SvcIdle /\ HistIdle
SpecStore == InitStore /\ [][StoreNext]_vars

InitDM == LoopIdle /\ DMInit /\ SchedIdle /\ StoreIdle /\ GMIdle /\ I2CIdle /\ SensIdle /\ HWIdle /\ SupIdle /\ SyncIdle /\ SvcIdle /\ HistIdle
SpecDM == InitDM /\ [][DMNext]_vars

InitGM == LoopIdle /\ DMIdle /\ SchedIdle /\ StoreIdle /\ GMInit /\ I2CIdle /\ SensIdle /\ HWIdle /\ SupIdle /\ SyncIdle /\ SvcIdle /\ HistIdle
SpecGM == InitGM /\ [][GMNext]_vars

InitI2C == LoopIdle /\ DMIdle /\ SchedIdle /\ StoreIdle /\ GMIdle /\ I2CInit /\ SensIdle /\ HWIdle /\ SupIdle /\ SyncIdle /\ SvcIdle /\ HistIdle
SpecI2C == InitI2C /\ [][I2CNext]_vars

InitLight == LoopIdle /\ LightInit /\ SchedIdle /\ StoreIdle /\ GMIdle /\ I2CIdle /\ SensIdle /\ HWIdle /\ SupIdle /\ SyncIdle /\ SvcIdle /\ HistIdle
SpecLight == InitLight /\ [][LightNext]_vars

InitSensor == LoopIdle /\ DMIdle /\ SchedIdle /\ StoreIdle /\ GMIdle /\ I2CIdle /\ SensInit /\ HWIdle /\ SupIdle /\ SyncIdle /\ SvcIdle /\ HistIdle
SpecSensor == InitSensor /\ [][SensNext]_vars

InitHW == LoopIdle /\ DMIdle /\ SchedIdle /\ StoreIdle /\ GMIdle /\ I2CIdle /\ SensIdle /\ HWInit /\ SupIdle /\ SyncIdle /\ SvcIdle /\ HistIdle
SpecHW == InitHW /\ [][HWNext]_vars

InitSup == LoopIdle /\ DMIdle /\ SchedIdle /\ StoreIdle /\ GMIdle /\ I2CIdle /\ SensIdle /\ HWIdle /\ SupInit /\ SyncIdle /\ SvcIdle /\ HistIdle
SpecSup == InitSup /\ [][SupNext]_vars

InitSync == LoopIdle /\ DMIdle /\ SchedIdle /\ StoreIdle /\ GMIdle /\ I2CIdle /\ SensIdle /\ HWIdle /\ SupIdle /\ SyncInit /\ SvcIdle /\ HistIdle
SpecSync == InitSync /\ [][SyncNext]_vars

InitSvc == LoopIdle /\ DMIdle /\ SchedIdle /\ StoreIdle /\ GMIdle /\ I2CIdle /\ SensIdle /\ HWIdle /\ SupIdle /\ SyncIdle /\ SvcInit /\ HistIdle
SpecSvc == InitSvc /\ [][SvcNext]_vars

InitHist == LoopIdle /\ DMIdle /\ SchedIdle /\ StoreIdle /\ GMIdle /\ I2CIdle /\ SensIdle /\ HWIdle /\ SupIdle /\ SyncIdle /\ SvcIdle /\ HistInit
SpecHist == InitHist /\ [][HistNext]_vars

(***************************************************************************)
(*                                 CLAIMS                                  *)
(***************************************************************************)

\* The safety interlock on a device document.
Interlock(d) == ~(d.pump = "on" /\ (d.fan = "on" \/ d.heat_mat = "on"))

LoopTypeOK ==
    /\ devices_info_file \in DeviceDocs
    /\ devices_info \in DeviceDocs
    /\ last_saved \in DeviceDocs \cup {NoDoc}
    /\ now \in 1..MaxTime
    /\ heat_duty \in 0..100

\* The interlock does hold on every document _run_gpio commits (lines
\* 178-180 force fan and heat mat off before each save of a running pump).
GpioCommitsInterlocked ==
    (backend = "gpio" /\ last_saved # NoDoc) => Interlock(last_saved)

\* C1: every device-state document the actuation loop (_run_gpio or
\* _run_mock) commits with save_json_secure has the pump off or both the fan
\* and the heat mat off.
C1_CommittedDocInterlocked ==
    last_saved # NoDoc => Interlock(last_saved)

\* C2: at every point of _run_gpio the pump line is never ACTIVE while the
\* fan line is ACTIVE or the heat-mat PWM duty cycle is above 0.
C2_OutputsInterlocked ==
    pump_line => (~fan_line /\ heat_duty = 0)

\* C4: an iteration that loads a document with the pump on and the heat mat
\* on has committed a document with the heat mat off by the time it ends.
C4_HeatMatOffWithinTick ==
    (pc = "sleep" /\ tick.hot) =>
        (last_saved # NoDoc /\ last_saved.heat_mat = "off")

\* C5: whenever the pump line goes from INACTIVE to ACTIVE, the fan and
\* sprinkler lines are INACTIVE and the heat-mat duty is 0 (the other
\* outputs were switched off before the pump was energised).
C5_PumpEnergisedAfterOthersOff ==
    [][(~pump_line /\ pump_line') =>
          (~fan_line' /\ ~sprinkler_line' /\ heat_duty' = 0)]_vars

\* C6: an iteration that finds the pump on with turned_on_at recorded and
\* the configured watering duration exceeded commits the pump off with
\* turned_on_at and manual_trigger removed.
C6_PumpOffOnceElapsed ==
    (pc = "sleep" /\ tick.due) =>
        (/\ last_saved # NoDoc
         /\ last_saved.pump = "off"
         /\ last_saved.turned_on_at = 0
         /\ ~last_saved.manual_trigger)

\* C7: an iteration of _run_gpio that loads the committed manual trigger
\* (pump on, manual_trigger set; run not already over) has recorded
\* turned_on_at and energised the pump line by the time it ends.
C7_ManualTriggerServed ==
    (pc = "sleep" /\ backend = "gpio" /\ tick.trigger /\ ~tick.due) =>
        (tick.recorded /\ pump_line)


\* C3: in the DeviceManager stack the backend never has the pump on while
\* the fan or the heater is on.
C3_BackendInterlocked ==
    dm.pump_state => (~dm.fan_state /\ ~dm.heater_state)

\* C8: the scheduled watering loop performs its watering check at most once
\* per calendar day.
C8_OneCheckPerDay ==
    sched.checks_that_day <= 1

\* C9: a scheduled check made at 12:00 on a weekday of watering_days with
\* manual mode off waters the plant (pump on for the duration, then off).
C9_ScheduledCheckWaters ==
    (/\ sched.last_check # NoCheck
     /\ sched.last_check.hour = 12 /\ sched.last_check.minute = 0
     /\ sched.last_check.weekday \in sched.watering_days
     /\ ~sched.is_manual)
        => sched.last_check.watered

\* C10: a load_json_secure that runs concurrently with the program's writes
\* of the document returns a complete document (the previous or the new
\* one), never the empty default in place of the existing content.
C10_LoadReturnsCompleteDocument ==
    store.initial = "doc" => store.result # EmptyDefault

\* The callers of save_json_secure that are inside the critical section
\* (between flock(LOCK_EX) and flock(LOCK_UN)).
InCriticalSection == {w \in SaveProcs : store.save_pc[w] # "idle"}

\* C11: the critical sections of concurrent save_json_secure calls never
\* overlap, no writer is inside one while the reader holds the shared lock,
\* and each rename installs exactly the data of the call that makes it (the
\* document is one of the written values, never a mix or a truncated file).
C11_SavesSerialized ==
    /\ [](/\ Cardinality(InCriticalSection) <= 1
          /\ store.lock_sh => InCriticalSection = {})
    /\ [][\A w \in SaveProcs :
            (store.save_pc[w] = "tmp_written" /\ store'.save_pc[w] = "replaced")
                => store'.file = store.save_data[w]]_vars

\* Both callers have written, one after the other, and the second rename
\* has just been made.
C11_TwoSavesDone ==
    /\ store.save_pc["route"] = "replaced"
    /\ store.save_data["loop"] = Doc(1)
    /\ store.save_data["route"] = Doc(2)
    /\ store.file = Doc(2)

\* C12: a load_json_secure that finds the target file missing or its
\* content malformed does not raise: it returns the empty default {} and
\* leaves the stored file as it was.
C12_LoadDefaultsOnMissingOrMalformed ==
    [][(store.load_pc = "locked" /\ store'.load_pc = "idle" /\ ~IsDoc(store.file))
          => (store'.result = EmptyDefault /\ store'.file = store.file)]_vars

\* A load has returned the default for a file that is missing.
C12_LoadedMissingFile ==
    store.reads > 0 /\ store.result = EmptyDefault /\ store.file = NoFile

(***************************************************************************)
(* C13: with the heat mat in automatic mode, the pump off and a            *)
(* temperature reading available, after an automation tick                 *)
(* (ControlService.update_auto_devices or one iteration of                 *)
(* GPIOAutomationService._automation_loop) the heat mat is on exactly when *)
(* the temperature is below the target temperature.                        *)
(***************************************************************************)
C13_HeatMatFollowsTemperature ==
    (/\ dm.last_op \in {"update_auto_devices", "gpio_automation_tick"}
     /\ dm.modes.heat_mat = "auto"
     /\ ~dm.pump_state
     /\ dm.last_args.temperature # NoReading)
        => (dm.heater_state <=> dm.last_args.temperature < DefaultTargetTemp)

(***************************************************************************)
(* C14: with the fan in automatic mode and a humidity reading available,   *)
(* after control_fan_auto the fan is on when the humidity is above the     *)
(* target humidity and off when it is at or below the target.              *)
(***************************************************************************)
C14_FanFollowsHumidity ==
    (/\ dm.last_op = "control_fan_auto"
     /\ dm.modes.fan = "auto"
     /\ dm.last_args.humidity # NoReading)
        => (dm.fan_state <=> dm.last_args.humidity > DefaultTargetHum)

(***************************************************************************)
(* C15: with the sprinkler in automatic mode and a humidity reading        *)
(* available, after an automation tick (ControlService.update_auto_devices *)
(* or one iteration of GPIOAutomationService._automation_loop) the         *)
(* sprinkler is on exactly when the humidity is below the target humidity  *)
(* and the pump is not on.                                                 *)
(***************************************************************************)
C15_SprinklerFollowsHumidityAndPump ==
    (/\ dm.last_op \in {"update_auto_devices", "gpio_automation_tick"}
     /\ dm.modes.sprinkler = "auto"
     /\ dm.last_args.humidity # NoReading)
        => (dm.sprinkler_state <=>
                (dm.last_args.humidity < DefaultTargetHum /\ ~dm.pump_state))

(***************************************************************************)
(* C16: in automatic mode the light is on exactly when the time of day     *)
(* lies inside the light window [start, end): a window whose start is      *)
(* after its end wraps past midnight, and a window whose start equals its  *)
(* end never turns the light on.  Stated of the stand-alone GPIO service   *)
(* after GPIOController.apply_automation.                                  *)
(***************************************************************************)
C16_LightOnExactlyInWindow ==
    LET start == gm.start_time[1] * 60 + gm.start_time[2]
        end == gm.end_time[1] * 60 + gm.end_time[2]
        t == gm.last_args.minutes
        in_window == IF start = end THEN FALSE
                     ELSE IF start < end THEN start <= t /\ t < end
                     ELSE t >= start \/ t < end
    IN (gm.last_op = "apply_automation" /\ gm.light.mode = "auto")
          => (gm.light.state = "on" <=> in_window)

(***************************************************************************)
(* C17: the automatic light intensity is 0 whenever the window's start     *)
(* equals its end; otherwise, while the light is on, the commanded         *)
(* intensity lies in the valid range and does not increase when the        *)
(* measured brightness increases.  Stated of the stand-alone GPIO service: *)
(* the intensity is what run() puts on the light pin after                 *)
(* apply_automation, and two consecutive automation passes with the same   *)
(* schedule are compared.                                                  *)
(***************************************************************************)
C17_IntensityZeroOrDecreasing ==
    /\ [](/\ (gm.last_op = "apply_automation" /\ gm.light.mode = "auto"
                 /\ gm.start_time = gm.end_time)
              => gm_light_output(gm) = 0
          /\ gm_light_output(gm) \in 0..100)
    /\ [][(/\ gm.last_op = "apply_automation"
           /\ gm'.last_op = "apply_automation"
           /\ gm.light.mode = "auto"
           /\ gm.light.state = "on" /\ gm'.light.state = "on"
           /\ gm.last_args.brightness # NoReading
           /\ gm'.last_args.brightness >= gm.last_args.brightness)
              => gm_light_output(gm') <= gm_light_output(gm)]_vars

(***************************************************************************)
(* C18: when the light window is active and no brightness reading is       *)
(* available, the automatic light is commanded to the configured default   *)
(* intensity (the light_intensity setting).  Stated after                  *)
(* control_light_auto, update_auto_devices and one iteration of            *)
(* GPIOAutomationService._automation_loop.                                 *)
(***************************************************************************)
C18_DefaultIntensityWithoutReading ==
    LET start == dm.start_hour * 60
        end == dm.end_hour * 60
        t == dm.last_args.minutes
        active == IF start = end THEN FALSE
                  ELSE IF start < end THEN start <= t /\ t < end
                  ELSE t >= start \/ t < end
    IN (/\ dm.last_op \in {"control_light_auto", "update_auto_devices",
                           "gpio_automation_tick"}
        /\ dm.modes.light = "auto"
        /\ dm.last_args.brightness = NoReading
        /\ active)
          => dm.light_state = DefaultLightIntensity

(***************************************************************************)
(* C19: in a bus transaction (writeto, readfrom_into,                      *)
(* writeto_then_readfrom) the first missing acknowledgment, on the address *)
(* byte or on a data byte, is followed immediately by a STOP condition and *)
(* an error raised to the caller: the unacknowledged byte is the last byte *)
(* written, the only bus event after it is the STOP (no further clock      *)
(* pulse, no new START), and nothing is read.                              *)
(***************************************************************************)
C19_NackStopsTransaction ==
    (i2c.op # "none" /\ i2c.args.nack_at # 0)
        => /\ i2c.bus.raised
           /\ Len(i2c.bus.written) = i2c.args.nack_at
           /\ ~i2c.bus.written[Len(i2c.bus.written)].ack
           /\ i2c.bus.after_nack = <<"STOP">>
           /\ i2c.bus.n_read = 0

\* A data byte of the write phase of writeto_then_readfrom was not
\* acknowledged.
C19_DataByteNacked ==
    /\ i2c.op = "writeto_then_readfrom"
    /\ i2c.args.nack_at = 2
    /\ i2c.args.count > 0
    /\ i2c.bus.raised
    /\ i2c.bus.after_nack = <<"STOP">>

(***************************************************************************)
(* C20: every byte written on the bus, the address byte right after START  *)
(* included, is transferred as exactly nine complete clock pulses (SCL     *)
(* low-high-low): the first eight carry the bits of the byte, most         *)
(* significant first, on the data line, the ninth runs with the data line  *)
(* released by the bridge, and _write_byte returns true exactly when the   *)
(* receiver holds the data line low during the ninth pulse.                *)
(***************************************************************************)
C20_NinePulsesPerByte ==
    \A k \in 1..Len(i2c.bus.written) :
        LET w == i2c.bus.written[k]
        IN /\ Len(w.pulses) = 9
           /\ \A i \in 1..8 : w.pulses[i][1] = Bit(w.byte, i - 1)
           /\ w.pulses[9][2] = 1
           /\ w.ack <=> w.pulses[9][1] = 0
           /\ w.ack <=> w.device_acks

\* C21: when a sensor read fails during a poll of SensorService.run, the
\* reading saved for that poll carries every affected field as None, not a
\* stale or fabricated value (the loop continuing is the next poll being
\* enabled, which the action's guard does not take away).
C21_FailedFieldsSavedAsNone ==
    (/\ sens.loop = "SensorService.run"
     /\ sens.cycle > 0
     /\ sens.saved)
        => \A f \in sens.failed : sens.current[f] = None

\* C22: after a read cycle of SensorReadingService in which a sensor value is
\* unavailable, sensor_data.json does not present a value of an earlier
\* cycle for the failed fields: they are None.
C22_NoStaleCurrentReading ==
    (/\ sens.loop = "SensorReadingService._read_loop"
     /\ sens.cycle > 0
     /\ sens.failed # {})
        => \A f \in sens.failed :
               /\ sens.current[f].cycle # sens.cycle - 1
               /\ sens.current[f] = None

\* The history list is within its window and ordered newest first.
C23_BoundedNewestFirst ==
    LET list == sens.history.list
    IN  /\ Len(list) <= HistoryWindow(sens.loop)
        /\ \A i, j \in 1..Len(list) : i < j => list[i].cycle > list[j].cycle

\* A poll that records a reading puts it at index 0, shifts the recorded
\* entries by one without changing them and drops what exceeds the window;
\* any other poll leaves the history as it is.
C23_InsertShiftDrop ==
    LET old == sens.history.list
        new == sens'.history.list
    IN  IF sens'.recorded
        THEN /\ sens'.history.exists
             /\ new[1].cycle = sens'.cycle
             /\ Len(new) = IF Len(old) < HistoryWindow(sens.loop)
                           THEN Len(old) + 1 ELSE HistoryWindow(sens.loop)
             /\ \A i \in 2..Len(new) : new[i] = old[i - 1]
        ELSE sens'.history = sens.history

\* C23: after any sequence of polls the sensor history is a list bounded by
\* its window (50 for SensorService, 15 for SensorReadingService), newest
\* first; each recorded reading is inserted at index 0, the oldest entries
\* are dropped on overflow and recorded entries are never modified.
C23_RollingHistory == [](C23_BoundedNewestFirst) /\ [][C23_InsertShiftDrop]_vars

\* A reading was recorded into a full history and an entry that an earlier
\* poll of this run had shifted is now the oldest one.
C23_OverflowDropsOldest ==
    /\ sens.recorded
    /\ Len(sens.history.list) = HistoryWindow(sens.loop)
    /\ sens.history.list[HistoryWindow(sens.loop)].cycle
           > 2 - HistoryWindow(sens.loop)

C26_SetterExecuted ==
    (hw'.calls = hw.calls + 1 /\ hw'.last.op = "set_relay")
        => /\ hw'.state[hw'.last.device] = hw'.last.state
           /\ hw'.lines =
                  IF hw'.last.ok
                  THEN [hw.lines EXCEPT ![hw'.last.device] = hw'.last.state]
                  ELSE hw.lines

\* C26: when the GPIO write fails during set_fan, set_pump, set_heater,
\* set_sprinkler or set_light, no exception reaches the caller, and the
\* set_* calls made afterwards are executed as before.
C26_WriteFailureSwallowed == [](~hw.raised) /\ [][C26_SetterExecuted]_vars

\* A setter switched its line on after an earlier write had failed.
C26_SetAfterFailure ==
    /\ hw.last.op = "set_relay"
    /\ hw.last.after_failure
    /\ hw.last.ok
    /\ hw.last.state
    /\ hw.lines[hw.last.device]

\* C27: the selection of the backend never raises: _create_backend returns
\* the hardware backend exactly when use_hardware is true and the hardware
\* initialisation succeeds and the mock backend otherwise; GPIOController.run
\* goes on in the simulated loop when the request of the GPIO lines fails.
C27_BackendSelectionNeverRaises ==
    /\ sup.backend # "raised"
    /\ sup.backend # "none"
        => (sup.backend = "GPIOdBackend" <=> (sup.use_hardware /\ sup.init_ok))
    /\ sup.backend \in {"none", "GPIOdBackend", "MockBackend"}
    /\ sup.loops.actuation.pc # "new"
        => /\ sup.loops.actuation.body = "_run_gpio"
                <=> (sup.gpio_available /\ sup.request_ok)
           /\ sup.loops.actuation.body \in {"_run_gpio", "_run_mock"}
           /\ sup.loops.actuation.pc # "crashed"

\* The hardware was asked for and its initialisation failed, the request of
\* the lines failed too, and the mock loop has completed an iteration.
C27_FellBackToMock ==
    /\ sup.use_hardware
    /\ sup.backend = "MockBackend"
    /\ sup.gpio_available
    /\ ~sup.request_ok
    /\ sup.loops.actuation.body = "_run_mock"
    /\ sup.last.loop = "actuation"

\* C28: after shutdown() has completed, every loop has been signalled to
\* stop through its flag, and every actuator has been forced off: the
\* persisted state of each device is off.
C28_ShutdownForcesDevicesOff ==
    sup.shutdown = "done"
        => /\ \A loop \in SupLoops :
                  loop \in LoopsWithRunningFlag /\ ~sup.running[loop]
           /\ \A device \in SupDevices : sup.devices[device] = "off"

\* C29: each of the three loops (actuation, sensor polling, periodic
\* external-sync trigger) tests a running flag once per iteration and ends
\* within one iteration after the flag is cleared: once the loops have been
\* told to stop, a loop finishes at most the iteration it is in and one more.
C29_LoopEndsWithinOneIteration ==
    \A loop \in SupLoops : sup.loops[loop].late <= 1

\* The steps of a loop with a running flag: out of the body into the sleep,
\* whatever failed, out of the sleep to the head of the while, and from there
\* into the body while the flag is set.
C30_NextIteration ==
    \A loop \in LoopsWithRunningFlag :
        LET before == sup.loops[loop].pc
            after == sup'.loops[loop].pc
        IN  before # after
                => /\ before = "body" => after = "sleep"
                   /\ before = "sleep" => after = "check"
                   /\ (before = "check" /\ sup.running[loop]) => after = "body"

\* C30: a failure raised in one iteration of the actuation loop or of the
\* sensor polling loop is caught within that iteration: while the running
\* flag is set the loop proceeds to its next iteration and never ends.
C30_FailureCaughtInIteration ==
    /\ [](\A loop \in LoopsWithRunningFlag :
             /\ sup.loops[loop].pc # "crashed"
             /\ sup.loops[loop].pc = "done" => ~sup.running[loop])
    /\ [][C30_NextIteration]_vars

\* A loop whose last iteration failed is in the body of its next iteration,
\* its flag still set.
C30_IterationAfterFailure ==
    /\ sup.last.failure # "none"
    /\ sup.last.loop \in LoopsWithRunningFlag
    /\ sup.loops[sup.last.loop].pc = "body"
    /\ sup.running[sup.last.loop]

\* C31: a failed send is retried on the next periodic tick and not before:
\* within one call of sync_queued_changes a change is sent once, and when the
\* call returns the queue holds exactly the changes whose send failed.
C31_RetryOnNextTickOnly ==
    /\ \A c \in Changes : sync.attempts[c] <= 1
    /\ sync.returned
           => {sync.queue[i] : i \in 1..Len(sync.queue)} = sync.failed

\* C32: an update that an external collaborator commits to the device
\* document while a tick is in progress (control_watering's pump on with
\* manual_trigger, written after the tick's load) is not overwritten by the
\* tick's later save of its earlier snapshot.
C32_SaveKeepsExternalUpdate ==
    [][(/\ pc \in {"save_running", "save_changes", "save_mock"}
        /\ ~tick.trigger
        /\ devices_info_file.pump = "on"
        /\ devices_info_file.manual_trigger)
            => (/\ devices_info_file'.pump = "on"
                /\ devices_info_file'.manual_trigger)]_vars

\* C33: at the end of every apply phase of _run_gpio the outputs mirror the
\* device document just loaded: the pump line is active iff pump.state is on
\* and the heat-mat duty is above 0 iff heat_mat.state is on.
C33_OutputsMirrorDocument ==
    (backend = "gpio" /\ pc = "sleep")
        => /\ pump_line <=> devices_info.pump = "on"
           /\ heat_duty > 0 <=> devices_info.heat_mat = "on"

\* C39: given the same device, settings and sensor documents and the same
\* clock, an iteration of _run_mock and an iteration of _run_gpio commit the
\* same device document.
C39_MockCommitsWhatGpioCommits ==
    (pc = "load" /\ sensor_data_file = "present")
        => \A newest \in Readings :
               run_mock_commit(devices_info_file, newest, settings, mode, now)
                   = run_gpio_commit(devices_info_file, newest, settings, mode, now)

\* The START conditions a transaction is to put on the bus: one, and a
\* repeated one before the read of writeto_then_readfrom.
C34_StartsIntended ==
    IF /\ i2c.op = "writeto_then_readfrom"
       /\ i2c.args.nack_at \notin 1..(1 + Len(i2c.args.buffer))
    THEN 2 ELSE 1

C35_OneLoopThread ==
    svc # <<>> => Cardinality(InLoop) <= 1

\* C36: an automation tick changes the state of a device only if the
\* device is in automatic mode: a device in manual mode has after
\* apply_automation the state it had before.
C36_ManualDevicesUntouched ==
    [][gm'.last_op = "apply_automation"
        => \A d \in GMComponents :
               gm[d].mode # "auto" => gm'[d] = gm[d]]_vars

\* C37: after every control_fan_auto call with a humidity reading the fan
\* state of the device manager equals the decision the call returns (the
\* hysteresis flag), also when set_device, set_fan or update_auto_devices
\* changed the fan between two calls.
C37_FanEqualsReturnedDecision ==
    (dm # <<>> /\ dm.last_op = "control_fan_auto"
               /\ dm.last_args.humidity # NoReading)
        => dm.fan_state = dm.fan_hysteresis_on

\* C38: after update_auto_devices with the light in automatic mode the
\* light entry it reports (intensity _light_intensity, on iff that is above
\* zero) equals the intensity just commanded to the device manager, also
\* when there is no brightness reading and the default intensity is used.
C38_ReportedLightIsCommandedLight ==
    (dm # <<>> /\ dm.last_op = "update_auto_devices" /\ dm.modes.light = "auto")
        => /\ dm.light_intensity = dm.light_state
           /\ (dm.light_intensity > 0) <=> (dm.light_state > 0)

\* C40: in HistoryService the four parallel buffers always have the same
\* length and hold at every index the values of one data point, after any
\* sequence of _load_history_from_disk (entries with missing fields
\* included) and add_data_point.
C40_BuffersAligned ==
    hist # <<>>
        => /\ hist.temperature_history = hist.timestamps
           /\ hist.humidity_history = hist.timestamps
           /\ hist.brightness_history = hist.timestamps

=============================================================================
